---- MODULE Spec2Model ----
(***************************************************************************)
(* A model of the MojoShader preprocessor (src/mojoshader_preprocessor.c). *)
(*                                                                         *)
(* Source text is a sequence of atoms (short strings): words, punctuation, *)
(* whitespace runs and newlines.  A token is a slice of atoms of a frame's *)
(* source (the code's pointer and length); its text is the concatenation   *)
(* of the atoms.  Each iteration of the loop of _preprocessor_nexttoken is *)
(* one action; a handler called by the iteration is part of the action.    *)
(***************************************************************************)
EXTENDS Integers, Sequences, FiniteSets, TLC

VARIABLES
    include_stack,      \* Context.include_stack, bottom first, top last
    define_hashtable,   \* Context.define_hashtable, the chains as one list
    file_macro,         \* Context.file_macro is not NULL
    line_macro,         \* Context.line_macro is not NULL
    isfail,             \* Context.isfail
    failstr,            \* Context.failstr
    recursion_count,    \* Context.recursion_count
    parsing_pragma,     \* Context.parsing_pragma
    callbacks,          \* Context.open_callback and close_callback are set
    returned,           \* the tokens preprocessor_nexttoken has returned
    tally,              \* counts of what the directive handlers have done
    out_of_memory,      \* Context.out_of_memory
    malloc_data,        \* Context.malloc_data, the state of the caller's allocator
    include_pool,       \* Context.include_pool, the number of frames in it
    conditional_pool,   \* Context.conditional_pool, the number of items in it
    retval,             \* what MOJOSHADER_preprocess returned, "" while it runs
    session,            \* the arguments MOJOSHADER_preprocess was called with
    calc                \* calculator.c: the expression parsed, the result printed

vars == <<include_stack, define_hashtable, file_macro, line_macro, isfail,
          failstr, recursion_count, parsing_pragma, callbacks, returned,
          tally, out_of_memory, malloc_data, include_pool, conditional_pool,
          retval, session, calc>>

(***************************************************************************)
(* Bounds of the model.                                                    *)
(***************************************************************************)
MaxLines == 3        \* lines of a generated conditional program
MaxFrames == 262     \* frames the include stack may hold in the model
MaxCalls == 260      \* tokens a run returns before it is held to be endless

(***************************************************************************)
(* Atoms and their classes.                                                *)
(***************************************************************************)
NUL == "\\0"         \* the byte '\0' inside a buffer
JUNK == "\\?"        \* a byte read past the end of the literal " "

DirectiveWords == {"include", "line", "define", "undef", "if", "ifdef",
                   "ifndef", "else", "elif", "endif", "error", "pragma"}

IdentAtoms == {"A", "B", "C", "F", "M", "S", "X", "a", "b", "x", "y", "z",
               "foo", "hello", "world", "defined", "__FILE__", "__LINE__",
               "f", "g", "once"} \cup DirectiveWords

MaxIntAtom == 42
IntAtoms == {ToString(i) : i \in 0..MaxIntAtom}

SpaceAtoms == {" ", "  "}          \* whitespace runs of one and two bytes
CommentAtoms == {"/*c*/"}          \* a complete multiline comment on one line

AtomInt(a) == CHOOSE i \in 0..MaxIntAtom : ToString(i) = a

AtomLen(a) == IF a \in {NUL, JUNK} THEN 1 ELSE Len(a)

RECURSIVE BytesLen(_)
BytesLen(text) ==
    IF text = <<>> THEN 0 ELSE AtomLen(Head(text)) + BytesLen(Tail(text))

RECURSIVE Str(_)
Str(text) == IF text = <<>> THEN "" ELSE Head(text) \o Str(Tail(text))

RECURSIVE Pow10(_)
Pow10(n) == IF n = 0 THEN 1 ELSE 10 * Pow10(n - 1)

\* strlen(): a buffer used as a C string ends at its first '\0'.
RECURSIVE CStr(_)
CStr(text) ==
    IF text = <<>> \/ Head(text) = NUL THEN <<>>
    ELSE <<Head(text)>> \o CStr(Tail(text))

Drop(s, n) == SubSeq(s, n + 1, Len(s))
Take(s, n) == SubSeq(s, 1, n)

(***************************************************************************)
(* The lexer.  preprocessor_lexer is generated from mojoshader_lexer.re,   *)
(* which is not part of src/; it is modelled from the tokenizer contract   *)
(* of the specification (sections 3, 4.4, 4.9 and 6).                      *)
(***************************************************************************)
RECURSIVE WordRun(_, _)
WordRun(s, allowed) ==
    IF s # <<>> /\ Head(s) \in allowed THEN 1 + WordRun(Tail(s), allowed)
    ELSE 0

RECURSIVE SpaceRun(_)
SpaceRun(s) ==
    IF s # <<>> /\ Head(s) \in SpaceAtoms THEN 1 + SpaceRun(Tail(s)) ELSE 0

\* index of the closing quote of a string literal that starts at s[1], or 0
RECURSIVE QuoteAt(_, _)
QuoteAt(s, i) ==
    IF i > Len(s) \/ s[i] = "\n" THEN 0
    ELSE IF s[i] = "\"" THEN i ELSE QuoteAt(s, i + 1)

DirectiveToken(word) ==
    CASE word = "include" -> "TOKEN_PP_INCLUDE"
      [] word = "line" -> "TOKEN_PP_LINE"
      [] word = "define" -> "TOKEN_PP_DEFINE"
      [] word = "undef" -> "TOKEN_PP_UNDEF"
      [] word = "if" -> "TOKEN_PP_IF"
      [] word = "ifdef" -> "TOKEN_PP_IFDEF"
      [] word = "ifndef" -> "TOKEN_PP_IFNDEF"
      [] word = "else" -> "TOKEN_PP_ELSE"
      [] word = "elif" -> "TOKEN_PP_ELIF"
      [] word = "endif" -> "TOKEN_PP_ENDIF"
      [] word = "error" -> "TOKEN_PP_ERROR"
      [] word = "pragma" -> "TOKEN_PP_PRAGMA"

OperatorToken(a) ==
    CASE a = "==" -> "TOKEN_EQL" [] a = "!=" -> "TOKEN_NEQ"
      [] a = "<=" -> "TOKEN_LEQ" [] a = ">=" -> "TOKEN_GEQ"
      [] a = "<<" -> "TOKEN_LSHIFT" [] a = ">>" -> "TOKEN_RSHIFT"
      [] a = "&&" -> "TOKEN_ANDAND" [] a = "||" -> "TOKEN_OROR"
      [] a = "##" -> "TOKEN_HASHHASH" [] a = "#" -> "TOKEN_HASH"
      [] OTHER -> a

\* update_state: the frame after a token of n atoms has been matched
UpdateState(fr, val, n) ==
    [fr EXCEPT !.tokenval = val,
               !.token = Take(fr.source, n),
               !.source = Drop(fr.source, n),
               !.line = IF val = "\n" THEN fr.line + 1 ELSE fr.line]

RECURSIVE preprocessor_lexer(_)
preprocessor_lexer(fr) ==
    LET s == fr.source
        a == Head(s)
        k == SpaceRun(Tail(s))
        word == k + 2
        q == QuoteAt(s, 2)
    IN  IF s = <<>> THEN UpdateState(fr, "TOKEN_EOI", 0)
        ELSE IF a \in SpaceAtoms \cup CommentAtoms THEN
            IF fr.report_whitespace THEN UpdateState(fr, " ", 1)
            ELSE preprocessor_lexer([fr EXCEPT !.source = Tail(s)])
        ELSE IF a = "\n" THEN UpdateState(fr, "\n", 1)
        ELSE IF a = "/*" THEN UpdateState(fr, "TOKEN_INCOMPLETE_COMMENT", Len(s))
        ELSE IF a = "#" /\ fr.tokenval = "\n" /\ Len(s) >= word
                /\ s[word] \in DirectiveWords
                /\ (Len(s) = word \/ s[word + 1] \notin IdentAtoms \cup IntAtoms)
            THEN UpdateState(fr, DirectiveToken(s[word]), word)
        ELSE IF a = "\"" /\ q > 0 THEN UpdateState(fr, "TOKEN_STRING_LITERAL", q)
        ELSE IF a \in IdentAtoms THEN
            UpdateState(fr, "TOKEN_IDENTIFIER", WordRun(s, IdentAtoms \cup IntAtoms))
        ELSE IF a \in IntAtoms THEN
            UpdateState(fr, "TOKEN_INT_LITERAL", WordRun(s, IntAtoms))
        ELSE IF a \in {NUL, JUNK} THEN UpdateState(fr, "TOKEN_BAD_CHARS", 1)
        ELSE UpdateState(fr, OperatorToken(a), 1)

\* lexer(): one token of pushback per frame
lexer(fr) ==
    IF fr.pushedback THEN [fr EXCEPT !.pushedback = FALSE]
    ELSE preprocessor_lexer(fr)

pushback(fr) == [fr EXCEPT !.pushedback = TRUE]

\* state->tokenlen, in bytes
tokenlen(fr) == BytesLen(fr.token)

(***************************************************************************)
(* The context.  The operators below take and return a record c with the   *)
(* fields of Context (and the tally); the actions copy it to the variables.*)
(***************************************************************************)
TOKEN_IDENTIFIER == "TOKEN_IDENTIFIER"
TOKEN_INT_LITERAL == "TOKEN_INT_LITERAL"
TOKEN_STRING_LITERAL == "TOKEN_STRING_LITERAL"
TOKEN_EOI == "TOKEN_EOI"
TOKEN_INCOMPLETE_COMMENT == "TOKEN_INCOMPLETE_COMMENT"
TOKEN_HASH == "TOKEN_HASH"
TOKEN_HASHHASH == "TOKEN_HASHHASH"
TOKEN_PREPROCESSING_ERROR == "TOKEN_PREPROCESSING_ERROR"

RecursionLimit == 256

Top(c) == c.include_stack[Len(c.include_stack)]
SetTop(c, fr) == [c EXCEPT !.include_stack[Len(c.include_stack)] = fr]
LexTop(c) == SetTop(c, lexer(Top(c)))

\* tally.raised lists the failures in the order they were raised
fail(c, reason) ==
    [c EXCEPT !.isfail = TRUE, !.failstr = reason,
              !.tally.raised = Append(@, reason)]

\* The caller's allocator.  Its state d says which request it refuses: the
\* nth one for an object of d.size bytes, once; with nth = 0 it refuses none.
\* Requests for strings and arrays are granted: text stays far below the
\* 64 KiB at which add_to_buffer asks for a new block.
\* d.junk is what a block it returns holds past the bytes written to it,
\* up to the first zero byte there.
NoRefusal == [size |-> "", nth |-> 0, junk |-> <<>>]
Requests ==
    {"sizeof (ErrorList)", "sizeof (Context)", "sizeof (IncludeState)",
     "sizeof (Conditional)", "sizeof (ErrorItem)",
     "sizeof (MOJOSHADER_preprocessData)"}

\* m(len, d): ptr says that the pointer returned is not NULL
m(len, d) ==
    [ptr |-> ~(d.size = len /\ d.nth = 1),
     d |-> IF d.size = len /\ d.nth > 0 THEN [d EXCEPT !.nth = @ - 1] ELSE d]

Malloc(c, len) ==
    [c |-> [c EXCEPT !.malloc_data = m(len, @).d,
                     !.out_of_memory = @ \/ ~m(len, c.malloc_data).ptr],
     ptr |-> m(len, c.malloc_data).ptr]

get_include(c) ==
    IF c.include_pool > 0
        THEN [c |-> [c EXCEPT !.include_pool = @ - 1], ptr |-> TRUE]
    ELSE Malloc(c, "sizeof (IncludeState)")
put_include(c) == [c EXCEPT !.include_pool = @ + 1]

get_conditional(c) ==
    IF c.conditional_pool > 0
        THEN [c |-> [c EXCEPT !.conditional_pool = @ - 1], ptr |-> TRUE]
    ELSE Malloc(c, "sizeof (Conditional)")
put_conditional(c) == [c EXCEPT !.conditional_pool = @ + 1]

\* a Define; the record with an empty identifier stands for the NULL pointer
NewDefine(sym, val, orig, parameters, paramcount) ==
    [identifier |-> sym, definition |-> val, original |-> orig,
     parameters |-> parameters, paramcount |-> paramcount]
NoDefine == NewDefine("", <<>>, <<>>, <<>>, 0)
IsNull(def) == def.identifier = ""

RECURSIVE FindInChain(_, _)
FindInChain(chain, sym) ==
    IF chain = <<>> THEN NoDefine
    ELSE IF Head(chain).identifier = sym THEN Head(chain)
    ELSE FindInChain(Tail(chain), sym)

add_define_nocheck(c, sym, val, parameters, paramcount) ==
    [c |-> [c EXCEPT !.define_hashtable =
                <<NewDefine(sym, val, <<>>, parameters, paramcount)>> \o @],
     rc |-> 1]

add_define(c, sym, val, parameters, paramcount) ==
    IF ~IsNull(FindInChain(c.define_hashtable, sym))
    THEN [c |-> fail(c, "'" \o sym \o "' already defined"), rc |-> 0]
    ELSE [c |-> [c EXCEPT !.define_hashtable =
                    <<NewDefine(sym, val, <<>>, parameters, paramcount)>> \o @],
          rc |-> 1]

RECURSIVE RemoveFirst(_, _)
RemoveFirst(chain, sym) ==
    IF chain = <<>> THEN <<>>
    ELSE IF Head(chain).identifier = sym THEN Tail(chain)
    ELSE <<Head(chain)>> \o RemoveFirst(Tail(chain), sym)

remove_define_keep(c, sym) == c

remove_define(c, sym) ==
    [c EXCEPT !.define_hashtable = RemoveFirst(@, sym)]

\* the text of __FILE__ is written without its '\0': read as a string it
\* goes on with what the block holds after it
find_define(c, sym) ==
    IF c.file_macro /\ sym = "__FILE__" THEN
        NewDefine("__FILE__",
                  <<"\"">> \o (IF c.include_stack = <<>> THEN <<>>
                               ELSE <<Top(c).filename>>) \o <<"\"">>
                        \o c.malloc_data.junk,
                  <<>>, <<>>, 0)
    ELSE IF c.line_macro /\ sym = "__LINE__" THEN
        NewDefine("__LINE__", <<ToString(Top(c).line)>>, <<>>, <<>>, 0)
    ELSE FindInChain(c.define_hashtable, sym)

find_define_by_token(c) == find_define(c, Str(Top(c).token))

find_macro_arg_head(fr, defines) ==
    IF defines = <<>> THEN NoDefine ELSE Head(defines)

RECURSIVE find_macro_arg(_, _)
find_macro_arg(fr, defines) ==
    IF defines = <<>> THEN NoDefine
    ELSE IF Head(defines).identifier = Str(fr.token) THEN Head(defines)
    ELSE find_macro_arg(fr, Tail(defines))

NewFrame(fname, source, linenum, close_callback) ==
    [filename |-> fname, source_base |-> source, source |-> source,
     token |-> <<>>, tokenval |-> "\n", line |-> linenum,
     pushedback |-> FALSE, report_whitespace |-> FALSE,
     conditional_stack |-> <<>>, close_callback |-> close_callback]

push_source_under(c, fname, source, linenum, close_callback) ==
    IF ~get_include(c).ptr THEN get_include(c).c
    ELSE [get_include(c).c EXCEPT !.include_stack =
            <<NewFrame(fname, source, linenum, close_callback)>> \o @]

push_source_linked(c, fname, source, linenum, close_callback) ==
    [get_include(c).c EXCEPT !.include_stack =
        Append(@, NewFrame(fname, source, linenum, close_callback))]

\* returns the context; the caller sees 1 returned when a frame was linked
push_source(c, fname, source, linenum, close_callback) ==
    IF ~get_include(c).ptr THEN get_include(c).c
    ELSE [get_include(c).c EXCEPT !.include_stack =
            Append(@, NewFrame(fname, source, linenum, close_callback))]

\* p is the context push_source left of c: push_source returned 1
Linked(c, p) == Len(p.include_stack) > Len(c.include_stack)

\* what a caller that returns push_source's result returns
PushReturned(c, p) == [c |-> p, rc |-> IF Linked(c, p) THEN 1 ELSE 0]

pop_source_all(c) ==
    [c EXCEPT !.include_stack = <<>>,
              !.include_pool = @ + Len(c.include_stack)]

pop_source_unclosed(c) ==
    [c EXCEPT !.include_stack = Take(@, Len(@) - 1),
              !.conditional_pool = @ + Len(Top(c).conditional_stack),
              !.include_pool = @ + 1]

pop_source(c) ==
    [c EXCEPT !.include_stack = Take(@, Len(@) - 1),
              !.tally.closed = IF Top(c).close_callback = "close_callback"
                               THEN Append(@, Top(c).source_base) ELSE @,
              !.conditional_pool = @ + Len(Top(c).conditional_stack),
              !.include_pool = @ + 1]

\* require_newline, fr the frame after its token is lexed: rewinds no matter what
Rewound(fr) ==
    [fr |-> pushback(fr),
     rc |-> fr.tokenval \in {TOKEN_INCOMPLETE_COMMENT, "\n", TOKEN_EOI}]

require_newline(fr) == Rewound(lexer(fr))

RECURSIVE IntValue(_)
IntValue(token) ==
    IF token = <<>> THEN 0
    ELSE LET last == token[Len(token)]
         IN  IntValue(Take(token, Len(token) - 1)) * Pow10(Len(last)) + AtomInt(last)

token_to_int(fr) == IntValue(fr.token)

(***************************************************************************)
(* The include callbacks of the caller: the files that can be opened.      *)
(***************************************************************************)
IncludeFiles == {"f", "g", "h", "b", "p"}
IncludeData(fname) ==
    IF fname = "f" THEN <<"x", "\n">>
    ELSE IF fname = "b" THEN <<"\n", "__FILE__", " ", "__LINE__", "\n">>
    ELSE IF fname = "p" THEN <<"#", "pragma", " ", "once">>
    ELSE IF fname = "h"
        THEN <<"#", "if", " ", "1", "\n", "#", "ifndef", " ", "F", "\n", "x", "\n">>
    ELSE <<"#", "include", " ", "\"", "f", "\"", "\n", "y", "\n">>

(***************************************************************************)
(* #include, #line, #error                                                 *)
(***************************************************************************)
\* index of the first ">" of s before the end of the line, or 0
RECURSIVE BracketAt(_, _)
BracketAt(s, i) ==
    IF i > Len(s) \/ s[i] = "\n" THEN 0
    ELSE IF s[i] = ">" THEN i ELSE BracketAt(s, i + 1)

\* index of the first newline of s, or Len(s) + 1
RECURSIVE LineEnd(_, _)
LineEnd(s, i) ==
    IF i > Len(s) \/ s[i] = "\n" THEN i ELSE LineEnd(s, i + 1)

Unquoted(token) == Str(SubSeq(token, 2, Len(token) - 1))

\* p is the context push_source left: a file that is not pushed is closed
IncludePushed(c, filename, p) ==
    IF Linked(c, p) THEN p
    ELSE [p EXCEPT !.tally.closed = Append(@, IncludeData(filename))]

\* the include_open callback, and the push of what it returned
IncludeOpen(c, filename) ==
    IF ~c.callbacks
        THEN fail(c, "Saw #include, but no include callbacks defined")
    ELSE IF filename \notin IncludeFiles
        THEN fail(c, "Include callback failed")
    ELSE IncludePushed(c, filename,
            push_source([c EXCEPT !.tally.opened = Append(@, IncludeData(filename))],
                        filename, IncludeData(filename), 1, "close_callback"))

\* nl is what require_newline returned after the filename
IncludeNewline(c, nl, filename) ==
    IF ~nl.rc THEN fail(SetTop(c, nl.fr), "Invalid #include directive")
    ELSE IncludeOpen(SetTop(c, nl.fr), filename)

\* every byte between the < > pair is part of the filename; gt is where ">" is
IncludeSystem(c, fr, gt) ==
    IF gt = 0
        THEN fail(SetTop(c, [fr EXCEPT !.source = Drop(@, LineEnd(@, 1) - 1)]),
                  "Invalid #include directive")
    ELSE IncludeNewline(c, require_newline([fr EXCEPT !.source = Drop(@, gt)]),
                        Str(Take(fr.source, gt - 1)))

\* fr holds the token after "#include"
IncludeName(c, fr) ==
    IF fr.tokenval = TOKEN_STRING_LITERAL
        THEN IncludeNewline(c, require_newline(fr), Unquoted(fr.token))
    ELSE IF fr.tokenval = "<" THEN IncludeSystem(c, fr, BracketAt(fr.source, 1))
    ELSE fail(SetTop(c, fr), "Invalid #include directive")

handle_pp_include(c) == IncludeName(c, lexer(Top(c)))

\* nl is what require_newline returned after the filename in fr
LineFile(c, fr, nl, linenum) ==
    IF ~nl.rc THEN fail(SetTop(c, nl.fr), "Invalid #line directive")
    ELSE SetTop(c, [nl.fr EXCEPT !.filename = Unquoted(fr.token),
                                 !.line = linenum])

\* fr holds the token after the line number
LineNumber(c, fr, linenum) ==
    IF fr.tokenval = "\n" THEN SetTop(c, [fr EXCEPT !.line = linenum])
    ELSE IF fr.tokenval # TOKEN_STRING_LITERAL
        THEN fail(SetTop(c, fr), "Invalid #line directive")
    ELSE LineFile(c, fr, require_newline(fr), linenum)

\* fr holds the token after "#line"
LineDirective(c, fr) ==
    IF fr.tokenval # TOKEN_INT_LITERAL
        THEN fail(SetTop(c, fr), "Invalid #line directive")
    ELSE LineNumber(c, lexer(fr), token_to_int(fr))

handle_pp_line(c) == LineDirective(c, lexer(Top(c)))

\* the loop of handle_pp_error: the rest of the line, spaces kept; fr holds the
\* token the iteration lexed
RECURSIVE ErrorLine(_, _)
ErrorLine(fr, text) ==
    IF fr.tokenval = "\n"
        THEN [fr |-> pushback([fr EXCEPT !.line = @ - 1]), text |-> text]
    ELSE IF fr.tokenval \in {TOKEN_INCOMPLETE_COMMENT, TOKEN_EOI}
        THEN [fr |-> pushback(fr), text |-> text]
    ELSE IF fr.tokenval = " " THEN ErrorLine(lexer(fr), text \o " ")
    ELSE ErrorLine(lexer(fr), text \o Str(fr.token))

\* r is what the loop returned
ErrorFail(c, r) ==
    [SetTop(c, [r.fr EXCEPT !.report_whitespace = FALSE])
        EXCEPT !.isfail = TRUE, !.failstr = r.text,
               !.tally.raised = Append(@, r.text)]

handle_pp_error(c) ==
    ErrorFail(c, ErrorLine(lexer([Top(c) EXCEPT !.report_whitespace = TRUE]),
                           "#error"))

(***************************************************************************)
(* #define and #undef                                                      *)
(***************************************************************************)
\* the first pass over a parameter list: counts the identifiers; fr holds the
\* token where an identifier is expected
RECURSIVE ParamScan(_, _)
\* fr holds the token after an identifier
ParamComma(fr, params) ==
    IF fr.tokenval # "," THEN [fr |-> fr, params |-> params]
    ELSE ParamScan(lexer(fr), params)

ParamScan(fr, params) ==
    IF fr.tokenval # TOKEN_IDENTIFIER THEN [fr |-> fr, params |-> params]
    ELSE ParamComma(lexer(fr), params + 1)

\* the second pass, from the saved state: copies the names
RECURSIVE ParamNames(_, _, _)
ParamCons(name, rest) == [fr |-> rest.fr, idents |-> <<name>> \o rest.idents]

\* fr holds the identifier number i
ParamName(fr, i, params) ==
    ParamCons(Str(fr.token),
              ParamNames(IF i < params - 1 THEN lexer(fr) ELSE fr, i + 1, params))

ParamNames_none(fr, i, params) == [fr |-> fr, idents |-> <<>>]

ParamNames(fr, i, params) ==
    IF i >= params THEN [fr |-> fr, idents |-> <<>>]
    ELSE ParamName(lexer(fr), i, params)

\* the loop that collects the body, whitespace reported; fr holds the token
\* the iteration lexed
RECURSIVE DefineBody(_, _)
DefineBody(fr, buffer) ==
    IF fr.tokenval \in {TOKEN_INCOMPLETE_COMMENT, TOKEN_EOI}
        THEN [fr |-> pushback(fr), buffer |-> buffer]
    ELSE IF fr.tokenval = "\n" THEN [fr |-> fr, buffer |-> buffer]
    ELSE IF fr.tokenval = " " THEN DefineBody(lexer(fr), Append(buffer, " "))
    ELSE DefineBody(lexer(fr), buffer \o fr.token)

\* the checks for '##' at either end of the flattened body
HashHashStrip(definition) ==
    LET buflen0 == BytesLen(definition) + 1
        lead == buflen0 > 2 /\ Head(definition) = "##"
        d1 == IF lead THEN Tail(definition) ELSE definition
        buflen1 == IF lead THEN buflen0 - 2 ELSE buflen0
        spaced == buflen1 > 2 /\ d1[Len(d1)] = " "
        buflen2 == IF spaced THEN buflen1 - 1 ELSE buflen1
        lastat == IF spaced THEN Len(d1) - 1 ELSE Len(d1)
        trail == buflen1 > 2 /\ buflen2 > 2 /\ lastat >= 1 /\ d1[lastat] = "##"
    IN  [definition |-> IF trail THEN Take(d1, lastat - 1) ELSE d1,
         hashhash_error |-> lead \/ trail]

\* a user #define or #undef of __FILE__ or __LINE__ releases the builtin
ReleaseBuiltin(c, sym, reason) ==
    IF sym = "__FILE__" /\ c.file_macro
        THEN [fail(c, reason) EXCEPT !.file_macro = FALSE]
    ELSE IF sym = "__LINE__" /\ c.line_macro
        THEN [fail(c, reason) EXCEPT !.line_macro = FALSE]
    ELSE c

\* the label handle_pp_define_failed: while (params--) Free(ctx, idents[params])
\* reads through idents, which is NULL unless the names were copied
handle_pp_define_failed(c, idents, params) ==
    IF params # 0 /\ idents = <<>> THEN [c EXCEPT !.tally.sigsegv = TRUE] ELSE c

\* added is what add_define returned
DefineAdded(added, idents, params) ==
    IF added.rc = 1 THEN added.c
    ELSE handle_pp_define_failed(added.c, idents, params)

\* the end of handle_pp_define: strip is what the '##' checks returned
DefineAdd(c, fr, sym, strip, idents, params) ==
    DefineAdded(add_define(SetTop(IF strip.hashhash_error
                                  THEN fail(c, "'##' cannot appear at either end of a macro expansion")
                                  ELSE c, fr),
                           sym, strip.definition, idents, params),
                idents, params)

\* body is what the loop over the macro's body returned
DefineCollected(c, sym, body, idents, params) ==
    DefineAdd(c, [body.fr EXCEPT !.report_whitespace = FALSE], sym,
              HashHashStrip(body.buffer), idents, params)

\* fr holds the first token of the body, pushed back for the loop
DefineTail(c, sym, fr, idents, params) ==
    DefineCollected(c, sym,
                    DefineBody(lexer([pushback(fr) EXCEPT !.report_whitespace = TRUE]),
                               <<>>),
                    idents, params)

\* names is what the second pass over the parameter list returned
DefineNamed(c, sym, names, params) ==
    DefineTail(c, sym, lexer(lexer(names.fr)), names.idents, params)

\* fr holds the "(", scan is what the first pass over the list returned
DefineParams(c, sym, fr, scan) ==
    IF scan.fr.tokenval # ")"
        THEN handle_pp_define_failed(
                fail(SetTop(c, scan.fr), "syntax error in macro parameter list"),
                <<>>, scan.params)
    ELSE IF scan.params = 0 THEN DefineTail(c, sym, lexer(scan.fr), <<>>, -1)
    ELSE DefineNamed(c, sym, ParamNames(fr, 0, scan.params), scan.params)

\* #define a(b) is different than #define a (b): fr holds the token after
\* the name, whitespace reported
DefineMacro(c, sym, fr) ==
    IF fr.tokenval = " " THEN DefineTail(c, sym, lexer(fr), <<>>, 0)
    ELSE IF fr.tokenval # "(" THEN DefineTail(c, sym, fr, <<>>, 0)
    ELSE DefineParams(c, sym, fr, ParamScan(lexer(fr), 0))

\* fr holds the token after "#define"
DefineSymbol(c, fr) ==
    IF fr.tokenval # TOKEN_IDENTIFIER
        THEN fail(SetTop(c, fr), "Macro names must be identifiers")
    ELSE IF Str(fr.token) = "defined"
        THEN fail(SetTop(c, fr), "'defined' cannot be used as a macro name")
    ELSE DefineMacro(ReleaseBuiltin(c, Str(fr.token),
                                    "'" \o Str(fr.token) \o "' already defined"),
                     Str(fr.token),
                     [lexer([fr EXCEPT !.report_whitespace = TRUE])
                        EXCEPT !.report_whitespace = FALSE])

handle_pp_define(c) == DefineSymbol(c, lexer(Top(c)))

\* nl is what require_newline returned after the name
UndefNewline(c, sym, nl) ==
    IF ~nl.rc THEN fail(SetTop(c, nl.fr), "Invalid #undef directive")
    ELSE remove_define(ReleaseBuiltin(SetTop(c, nl.fr), sym,
                                      "undefining \"" \o sym \o "\""), sym)

\* fr holds the token after "#undef"
UndefSymbol(c, fr) ==
    IF fr.tokenval # TOKEN_IDENTIFIER
        THEN fail(SetTop(c, fr), "Macro names must be indentifiers")
    ELSE UndefNewline(c, Str(fr.token), require_newline(fr))

handle_pp_undef(c) == UndefSymbol(c, lexer(Top(c)))

(***************************************************************************)
(* Macro replacement                                                       *)
(***************************************************************************)
\* the whitespace token copied from the literal " " with the token's length
SpaceCopy(len) ==
    IF len <= 1 THEN <<" ">>
    ELSE <<" ", NUL>> \o [i \in 1..(len - 2) |-> JUNK]

\* the bytes set to '\0' from the end of an argument
RECURSIVE TrimTrailing(_)
TrimTrailing(text) ==
    IF text # <<>> /\ text[Len(text)] = " "
    THEN TrimTrailing(Take(text, Len(text) - 1))
    ELSE text

\* put a space between tokens if we're not concatenating
TokenGap_always(concat, buffer) == <<" ">>

TokenGap(concat, buffer) ==
    IF ~concat /\ BytesLen(buffer) > 0 THEN <<" ">> ELSE <<>>

\* the stringified text, between quotes
Stringify(data) == <<"\"">> \o data \o <<"\"">>

\* the macro argument the identifier in fr names, if any
MacroArg(fr, params) ==
    IF fr.tokenval = TOKEN_IDENTIFIER THEN find_macro_arg(fr, params) ELSE NoDefine

\* the loop of replace_and_push_macro over the frame of the macro's body
RECURSIVE ReplaceLoop(_, _, _)
\* stringify: fr holds the token after '#', data is the text of the '#'
ReplaceStringify(fr, arg, data, buffer, params) ==
    ReplaceLoop(fr, buffer \o Stringify(IF IsNull(arg) THEN data
                                        ELSE CStr(arg.original)), params)

\* argument replacement: fr holds the token, peek the frame lexed once more
ReplaceArg(fr, peek, arg, concat, buffer, params) ==
    IF IsNull(arg) THEN ReplaceLoop(fr, buffer \o fr.token, params)
    ELSE IF concat THEN ReplaceLoop(fr, buffer \o CStr(arg.original), params)
    ELSE ReplaceLoop(pushback(peek),
                     buffer \o CStr(IF peek.tokenval = TOKEN_HASHHASH
                                    THEN arg.original ELSE arg.definition),
                     params)

\* fr holds the token to copy, past a "##" when concat
ReplaceToken(fr, next, concat, buffer, params) ==
    IF fr.tokenval = TOKEN_HASH
    THEN ReplaceStringify(next, MacroArg(next, params), fr.token, buffer, params)
    ELSE ReplaceArg(fr, next, MacroArg(fr, params), concat, buffer, params)

\* fr holds the token after the "##" when concat, the token itself otherwise
ReplaceConcat(fr, concat, buffer, params) ==
    ReplaceToken(fr, lexer(fr), concat, buffer \o TokenGap(concat, buffer), params)

\* fr holds the token the iteration lexed
ReplaceLexed(fr, buffer, params) ==
    IF fr.tokenval = TOKEN_EOI THEN buffer
    ELSE IF fr.tokenval = TOKEN_HASHHASH
        THEN ReplaceConcat(lexer(fr), TRUE, buffer, params)
    ELSE ReplaceConcat(fr, FALSE, buffer, params)

ReplaceLoop(fr, buffer, params) == ReplaceLexed(lexer(fr), buffer, params)

\* the frame of the macro's body, lexed from its start
MacroBody(state, def) ==
    NewFrame(state.filename, CStr(def.definition), state.line, "NULL")

\* the replaced text is pushed as a source of its own
PushReplaced(c, state, final) ==
    PushReturned(c, push_source(c, state.filename, CStr(final), state.line,
                                "close_define_include"))

\* the two assertions of the loop: the token lexed after a "##", and the
\* one lexed after a "#", is not TOKEN_EOI.  fr is the frame of the body
\* before an iteration; an iteration lexes the same tokens whatever they name.
RECURSIVE ReplaceAsserts(_)
ReplaceAsserts(fr) ==
    LET first == lexer(fr)
        second == IF first.tokenval = TOKEN_HASHHASH THEN lexer(first) ELSE first
        third == IF second.tokenval = TOKEN_HASH THEN lexer(second) ELSE second
    IN  IF first.tokenval = TOKEN_EOI THEN TRUE
        ELSE IF first.tokenval = TOKEN_HASHHASH /\ second.tokenval = TOKEN_EOI
            THEN FALSE
        ELSE IF second.tokenval = TOKEN_HASH /\ third.tokenval = TOKEN_EOI
            THEN FALSE
        ELSE IF second.tokenval = TOKEN_EOI THEN TRUE
        ELSE ReplaceAsserts(third)

\* a failed assertion ends the process where assertions are compiled in
Asserted(r, held) == [r EXCEPT !.c.tally.asserted = @ \/ ~held]

\* the frame of the macro's body is pushed first and popped once it is lexed
replace_and_push_macro(c, def, params) ==
    IF ~get_include(c).ptr THEN [c |-> get_include(c).c, rc |-> 0]
    ELSE Asserted(PushReplaced(put_include(get_include(c).c), Top(c),
                               ReplaceLoop(MacroBody(Top(c), def), <<>>, params)),
                  ReplaceAsserts(MacroBody(Top(c), def)))

\* whitespace is not added to the start of the original text of an argument
OrigSpace_always(buffer) == <<" ">>

OrigSpace(buffer) == IF BytesLen(buffer) = 0 THEN <<>> ELSE <<" ">>

\* the text an argument's token adds to the buffer
ArgExpr(fr, def) ==
    IF fr.tokenval = " " THEN SpaceCopy(tokenlen(fr))
    ELSE IF fr.tokenval = TOKEN_IDENTIFIER /\ ~IsNull(def) /\ def.paramcount = 0
        THEN CStr(def.definition)
    ELSE fr.token

\* the text an argument's token adds to the original buffer
ArgOrigExpr(fr, buffer) ==
    IF fr.tokenval = " " THEN OrigSpace(buffer) ELSE fr.token

\* the nesting depth after the token
ArgParen(t, paren) ==
    IF t = "(" THEN paren + 1 ELSE IF t = ")" THEN paren - 1 ELSE paren

\* the inner loop of handle_macro_args: one argument, from the token in fr
RECURSIVE CollectArg(_, _, _, _, _)
CollectArg(c, fr, paren, buffer, origbuffer) ==
    IF (fr.tokenval = ")" /\ paren <= 1) \/ (fr.tokenval = "," /\ paren = 1)
        THEN [fr |-> fr, paren |-> ArgParen(fr.tokenval, paren), buffer |-> buffer,
              origbuffer |-> origbuffer, failed |-> FALSE]
    ELSE IF fr.tokenval \in {TOKEN_INCOMPLETE_COMMENT, TOKEN_EOI}
        THEN [fr |-> pushback(fr), paren |-> paren, buffer |-> buffer,
              origbuffer |-> origbuffer, failed |-> TRUE]
    ELSE CollectArg(c, lexer(fr), ArgParen(fr.tokenval, paren),
                    buffer \o ArgExpr(fr, find_define_by_token(SetTop(c, fr))),
                    origbuffer \o ArgOrigExpr(fr, buffer))

\* the parameter list with the collected argument a linked in front
LinkParam(def, a, saw_params, params) ==
    IF saw_params < (IF def.paramcount < 0 THEN 0 ELSE def.paramcount)
    THEN <<NewDefine(def.parameters[saw_params + 1], TrimTrailing(a.buffer),
                     TrimTrailing(a.origbuffer), <<>>, 0)>> \o params
    ELSE params

\* the outer loop: one argument per iteration while paren > 0
RECURSIVE CollectArgs(_, _, _, _, _, _, _)
\* the iteration once its argument a is collected
Collected(c, def, a, saw_params, params, void_call) ==
    IF a.failed
        THEN [fr |-> a.fr, saw_params |-> saw_params, params |-> params,
              void_call |-> void_call, failed |-> TRUE]
    ELSE CollectArgs(c, def, a.fr, a.paren, saw_params + 1,
                     LinkParam(def, a, saw_params, params),
                     IF BytesLen(a.buffer) = 0
                     THEN (saw_params = 0 /\ a.paren = 0) ELSE void_call)

CollectArgs(c, def, fr, paren, saw_params, params, void_call) ==
    IF paren <= 0
        THEN [fr |-> fr, saw_params |-> saw_params, params |-> params,
              void_call |-> void_call, failed |-> FALSE]
    ELSE Collected(c, def, CollectArg(c, lexer(fr), paren, <<>>, <<>>),
                   saw_params, params, void_call)

CheckArgs_any(c, sym, def, args, saw_params, expected) ==
    IF args.failed
        THEN [c |-> fail(c, "Unterminated macro list"), rc |-> 0]
    ELSE replace_and_push_macro(c, def, args.params)

\* handle_macro_args after its loops
CheckArgs(c, sym, def, args, saw_params, expected) ==
    IF args.failed
        THEN [c |-> fail(c, "Unterminated macro list"), rc |-> 0]
    ELSE IF saw_params # expected
        THEN [c |-> fail(c, "macro '" \o sym \o "' passed "
                            \o ToString(saw_params)
                            \o " arguments, but requires "
                            \o ToString(expected)),
              rc |-> 0]
    ELSE replace_and_push_macro(c, def, args.params)

\* the argument count, a call with no arguments at all counted as none
SawParams(def, args) ==
    IF def.paramcount < 0 /\ args.saw_params = 1 /\ args.void_call
    THEN 0 ELSE args.saw_params

MacroArgs(c, sym, def, args) ==
    CheckArgs(SetTop(c, [args.fr EXCEPT !.report_whitespace = FALSE]), sym, def,
              args, SawParams(def, args),
              IF def.paramcount < 0 THEN 0 ELSE def.paramcount)

MacroCall_unrestored(c, sym, def, state, fr) ==
    IF fr.tokenval # "("
        THEN [c |-> SetTop(c, [fr EXCEPT !.report_whitespace = FALSE]), rc |-> 0]
    ELSE MacroArgs(c, sym, def,
                   CollectArgs(c, def, [fr EXCEPT !.report_whitespace = TRUE],
                               1, 0, <<>>, FALSE))

\* state is the saved frame, fr the frame after the token that follows the name
MacroCall(c, sym, def, state, fr) ==
    IF fr.tokenval # "("
        \* the saved state is restored: gcc abandons replacement, too
        THEN [c |-> SetTop(c, [state EXCEPT !.report_whitespace = FALSE]),
              rc |-> 0]
    ELSE MacroArgs(c, sym, def,
                   CollectArgs(c, def, [fr EXCEPT !.report_whitespace = TRUE],
                               1, 0, <<>>, FALSE))

handle_macro_args(c, sym, def) == MacroCall(c, sym, def, Top(c), lexer(Top(c)))

Replace_through(c, state, sym, def) == [c |-> c, rc |-> 0]

\* handle_pp_identifier past the recursion test, def what find_define returned
Replace(c, state, sym, def) ==
    IF IsNull(def) THEN [c |-> c, rc |-> 0]
    ELSE IF def.paramcount # 0 THEN handle_macro_args(c, sym, def)
    ELSE PushReturned(c, push_source(c, state.filename, CStr(def.definition),
                                     state.line, "NULL"))

handle_pp_identifier(c) ==
    IF c.recursion_count >= RecursionLimit
        THEN [c |-> fail([c EXCEPT !.recursion_count = @ + 1], "Recursing macros"),
              rc |-> 0]
    ELSE Replace([c EXCEPT !.recursion_count = @ + 1], Top(c), Str(Top(c).token),
                 find_define(c, Str(Top(c).token)))

(***************************************************************************)
(* The #if expression evaluator                                            *)
(***************************************************************************)
TOKEN_PP_UNARY_MINUS == "TOKEN_PP_UNARY_MINUS"
TOKEN_PP_UNARY_PLUS == "TOKEN_PP_UNARY_PLUS"

find_precedence(token) ==
    CASE token = "TOKEN_OROR" -> 0
      [] token = "TOKEN_ANDAND" -> 1
      [] token = "|" -> 2
      [] token = "^" -> 3
      [] token = "&" -> 4
      [] token = "TOKEN_NEQ" -> 5
      [] token = "TOKEN_EQL" -> 6
      [] token \in {"<", ">", "TOKEN_LEQ", "TOKEN_GEQ"} -> 7
      [] token \in {"TOKEN_LSHIFT", "TOKEN_RSHIFT"} -> 8
      [] token \in {"-", "+"} -> 9
      [] token \in {"%", "/", "*"} -> 10
      [] token \in {TOKEN_PP_UNARY_PLUS, TOKEN_PP_UNARY_MINUS, "!", "~"} -> 11
      [] OTHER -> -1

\* C's operators on long values
Bool(b) == IF b THEN 1 ELSE 0
Abs(x) == IF x < 0 THEN -x ELSE x
CDiv(x, y) == IF (x < 0) = (y < 0) THEN Abs(x) \div Abs(y) ELSE -(Abs(x) \div Abs(y))
CMod(x, y) == x - y * CDiv(x, y)

RECURSIVE Pow2(_)
Pow2(n) == IF n <= 0 THEN 1 ELSE 2 * Pow2(n - 1)

RECURSIVE NatAnd(_, _)
NatAnd(x, y) ==
    IF x = 0 \/ y = 0 THEN 0
    ELSE ((x % 2) * (y % 2)) + 2 * NatAnd(x \div 2, y \div 2)

BitNot(x) == -x - 1
BitAnd(x, y) ==
    IF x >= 0 /\ y >= 0 THEN NatAnd(x, y)
    ELSE IF x < 0 /\ y < 0
        THEN BitNot(BitNot(x) + BitNot(y) - NatAnd(BitNot(x), BitNot(y)))
    ELSE IF x < 0 THEN y - NatAnd(BitNot(x), y)
    ELSE x - NatAnd(x, BitNot(y))
BitOr(x, y) == x + y - BitAnd(x, y)
BitXor(x, y) == x + y - 2 * BitAnd(x, y)

UnaryOps == {"!", "~", TOKEN_PP_UNARY_MINUS, TOKEN_PP_UNARY_PLUS}
BinaryOps == {"TOKEN_OROR", "TOKEN_ANDAND", "|", "^", "&", "TOKEN_NEQ",
              "TOKEN_EQL", "<", ">", "TOKEN_LEQ", "TOKEN_GEQ", "TOKEN_LSHIFT",
              "TOKEN_RSHIFT", "-", "+", "%", "/", "*"}

UNARY_OPERATION(op, x) ==
    CASE op = "!" -> Bool(x = 0)
      [] op = "~" -> BitNot(x)
      [] op = TOKEN_PP_UNARY_MINUS -> -x
      [] op = TOKEN_PP_UNARY_PLUS -> x

BINARY_OPERATION(op, x, y) ==
    CASE op = "TOKEN_OROR" -> Bool(x # 0 \/ y # 0)
      [] op = "TOKEN_ANDAND" -> Bool(x # 0 /\ y # 0)
      [] op = "|" -> BitOr(x, y)
      [] op = "^" -> BitXor(x, y)
      [] op = "&" -> BitAnd(x, y)
      [] op = "TOKEN_NEQ" -> Bool(x # y)
      [] op = "TOKEN_EQL" -> Bool(x = y)
      [] op = "<" -> Bool(x < y)
      [] op = ">" -> Bool(x > y)
      [] op = "TOKEN_LEQ" -> Bool(x <= y)
      [] op = "TOKEN_GEQ" -> Bool(x >= y)
      [] op = "TOKEN_LSHIFT" -> x * Pow2(y)
      [] op = "TOKEN_RSHIFT" -> (x - (x % Pow2(y))) \div Pow2(y)
      [] op = "-" -> x - y
      [] op = "+" -> x + y
      [] op = "%" -> CMod(x, y)
      [] op = "/" -> CDiv(x, y)
      [] op = "*" -> x * y

interpret_rpn_lenient(tokens, stack) == [error |-> 0, trap |-> FALSE, value |-> 0]

\* interpret_rpn: the operand stack has its top last.  A division by zero
\* is undefined behaviour: trap is set, and the value is the one of the
\* targets that do not trap (the quotient is 0, the remainder the dividend).
RECURSIVE interpret_rpn(_, _)
interpret_rpn(tokens, stack) ==
    LET t == Head(tokens)
        n == Len(stack)
    IN  IF tokens = <<>>
            THEN [error |-> Bool(n # 1), trap |-> FALSE,
                  value |-> IF n = 1 THEN stack[1] ELSE 0]
        ELSE IF t.isoperator = 0
            THEN interpret_rpn(Tail(tokens), Append(stack, t.value))
        ELSE IF t.value \in UnaryOps THEN
            IF n < 1 THEN [error |-> 1, trap |-> FALSE, value |-> 0]
            ELSE interpret_rpn(Tail(tokens),
                    [stack EXCEPT ![n] = UNARY_OPERATION(t.value, stack[n])])
        ELSE IF t.value \in BinaryOps THEN
            IF n < 2 THEN [error |-> 1, trap |-> FALSE, value |-> 0]
            ELSE IF t.value \in {"%", "/"} /\ stack[n] = 0
                THEN [interpret_rpn(Tail(tokens),
                        Append(Take(stack, n - 2),
                               IF t.value = "/" THEN 0 ELSE stack[n - 1]))
                      EXCEPT !.trap = TRUE]
            ELSE interpret_rpn(Tail(tokens),
                    Append(Take(stack, n - 2),
                           BINARY_OPERATION(t.value, stack[n - 1], stack[n])))
        ELSE [error |-> 1, trap |-> FALSE, value |-> 0]

Operand(val) == [isoperator |-> 0, value |-> val]
Operator(t) == [isoperator |-> 1, value |-> t]

\* pops the operators above the innermost "(" to the output
RECURSIVE PopToParen(_, _)
PopToParen(stack, output) ==
    IF stack = <<>> THEN [matched |-> FALSE, stack |-> stack, output |-> output]
    ELSE IF stack[Len(stack)] = "("
        THEN [matched |-> TRUE, stack |-> Take(stack, Len(stack) - 1),
              output |-> output]
    ELSE PopToParen(Take(stack, Len(stack) - 1),
                    Append(output, Operator(stack[Len(stack)])))

\* pops the operators that bind at least as tightly as the one being pushed
RECURSIVE PopOperators(_, _, _, _)
PopOperators(stack, output, isleft, precedence) ==
    LET t == stack[Len(stack)]
        p == find_precedence(t)
    IN  IF stack # <<>> /\ p >= 0
           /\ ((isleft /\ precedence <= p) \/ (~isleft /\ precedence < p))
        THEN PopOperators(Take(stack, Len(stack) - 1),
                          Append(output, Operator(t)), isleft, precedence)
        ELSE [stack |-> stack, output |-> output]

\* the loop after the input is consumed: what is left on the stack
RECURSIVE PopAll(_, _)
PopAll(stack, output) ==
    IF stack = <<>> THEN [unmatched |-> FALSE, output |-> output]
    ELSE IF stack[Len(stack)] = "(" THEN [unmatched |-> TRUE, output |-> output]
    ELSE PopAll(Take(stack, Len(stack) - 1),
                Append(output, Operator(stack[Len(stack)])))

DefinedResult_never(c, fr, def) ==
    [c |-> SetTop(c, fr), ok |-> TRUE, found |-> 0]

\* the operator 'defined', from the frame whose current token is "defined"
DefinedResult(c, fr, def) ==
    [c |-> SetTop(c, fr), ok |-> TRUE, found |-> Bool(~IsNull(def))]

\* name holds the identifier, fr the token after it
DefinedClose(c, name, fr) ==
    IF fr.tokenval # ")"
        THEN [c |-> fail(SetTop(c, fr), "Unmatched ')'"), ok |-> FALSE, found |-> 0]
    ELSE DefinedResult(c, fr, find_define_by_token(SetTop(c, name)))

\* fr holds the token where the identifier is expected
DefinedName(c, paren, fr) ==
    IF fr.tokenval # TOKEN_IDENTIFIER
        THEN [c |-> fail(SetTop(c, fr), "operator 'defined' requires an identifier"),
              ok |-> FALSE, found |-> 0]
    ELSE IF paren THEN DefinedClose(c, fr, lexer(fr))
    ELSE DefinedResult(c, fr, find_define_by_token(SetTop(c, fr)))

\* fr holds the token after "defined"
DefinedParen(c, fr) ==
    IF fr.tokenval = "(" THEN DefinedName(c, TRUE, lexer(fr))
    ELSE DefinedName(c, FALSE, fr)

DefinedOperator(c) == DefinedParen(c, lexer(Top(c)))

ExprToken_binary(token, previous_token) == token

\* the token of the loop, '+' and '-' made unary unless an integer precedes
ExprToken(token, previous_token) ==
    IF token = "-" /\ previous_token # TOKEN_INT_LITERAL THEN TOKEN_PP_UNARY_MINUS
    ELSE IF token = "+" /\ previous_token # TOKEN_INT_LITERAL THEN TOKEN_PP_UNARY_PLUS
    ELSE token

\* the loop of reduce_pp_expression: to reverse polish notation
RECURSIVE ReduceLoop(_, _, _, _)
\* the loop's iteration on "defined", dfn what DefinedOperator returned
ReduceDefined(dfn, output, stack, previous_token) ==
    IF dfn.ok
    THEN ReduceLoop(dfn.c, Append(output, Operand(dfn.found)), stack, previous_token)
    ELSE [c |-> dfn.c, rc |-> -1, output |-> output, stack |-> stack]

\* the loop's iteration on an identifier, id what handle_pp_identifier returned
ReduceIdentifier(id, name, output, stack, previous_token) ==
    IF id.rc = 1 THEN ReduceLoop(id.c, output, stack, previous_token)
    ELSE IF name = "defined"
        THEN ReduceDefined(DefinedOperator(id.c), output, stack, previous_token)
    ELSE ReduceLoop(id.c, Append(output, Operand(0)), stack, TOKEN_INT_LITERAL)

\* the loop's iteration on ")", close what was popped down to the "("
ReduceClose(c, close, output, stack, token) ==
    IF close.matched THEN ReduceLoop(c, close.output, close.stack, token)
    ELSE [c |-> fail(c, "Unmatched ')'"), rc |-> -1,
          output |-> output, stack |-> stack]

\* the loop's iteration on an operator, popped what its precedence popped
ReducePush(c, popped, token) ==
    ReduceLoop(c, popped.output, Append(popped.stack, token), token)

\* fr holds the token the iteration lexed
ReduceToken(c, fr, output, stack, previous_token) ==
    LET token == ExprToken(fr.tokenval, previous_token)
        isleft == token \notin {"!", "~", TOKEN_PP_UNARY_MINUS, TOKEN_PP_UNARY_PLUS}
        c1 == [SetTop(c, fr) EXCEPT !.recursion_count =
                    IF token # TOKEN_IDENTIFIER THEN 0 ELSE @]
    IN  IF token \in {TOKEN_EOI, "\n"}
            THEN [c |-> c1, rc |-> 0, output |-> output, stack |-> stack]
        ELSE IF token = TOKEN_IDENTIFIER
            THEN ReduceIdentifier(handle_pp_identifier(c1), Str(fr.token), output,
                                  stack, previous_token)
        ELSE IF token = TOKEN_INT_LITERAL
            THEN ReduceLoop(c1, Append(output, Operand(token_to_int(fr))), stack,
                            token)
        ELSE IF token = "(" THEN ReduceLoop(c1, output, Append(stack, "("), token)
        ELSE IF token = ")"
            THEN ReduceClose(c1, PopToParen(stack, output), output, stack, token)
        ELSE IF find_precedence(token) < 0
            THEN [c |-> fail(SetTop(c1, pushback(fr)), "Invalid expression"),
                  rc |-> -1, output |-> output, stack |-> stack]
        ELSE ReducePush(c1, PopOperators(stack, output, isleft, find_precedence(token)),
                        token)

ReduceLoop(c, output, stack, previous_token) ==
    ReduceToken(c, lexer(Top(c)), output, stack, previous_token)

\* reduce_pp_expression after its loop: the rest of the stack, the evaluation
Evaluate(r) ==
    LET rest == PopAll(r.stack, r.output)
        val == interpret_rpn(rest.output, <<>>)
    IN  IF r.rc = -1 THEN [c |-> r.c, rc |-> -1]
        ELSE IF rest.unmatched THEN [c |-> fail(r.c, "Unmatched ')'"), rc |-> -1]
        ELSE IF val.trap /\ r.c.traps
            THEN [c |-> [r.c EXCEPT !.tally.sigfpe = TRUE, !.tally.zerodiv = TRUE],
                  rc |-> -1]
        ELSE IF val.error = 1
            THEN [c |-> fail([r.c EXCEPT !.tally.zerodiv = @ \/ val.trap],
                             "Invalid expression"),
                  rc |-> -1]
        ELSE [c |-> [r.c EXCEPT !.tally.evaluated = @ + 1,
                                !.tally.value = val.value,
                                !.tally.zerodiv = @ \/ val.trap],
              rc |-> Bool(val.value # 0)]

reduce_pp_expression(c) == Evaluate(ReduceLoop(c, <<>>, <<>>, "TOKEN_UNKNOWN"))

(***************************************************************************)
(* Conditionals.  A frame's conditional_stack has its innermost first.     *)
(***************************************************************************)
NewConditional(type, linenum, skipping, chosen) ==
    [type |-> type, linenum |-> linenum, skipping |-> skipping, chosen |-> chosen]

ParentSkipping_never(conds) == FALSE

\* (parent != NULL) && (parent->skipping)
ParentSkipping(conds) == conds # <<>> /\ Head(conds).skipping

\* links a new Conditional on top of the stack of frame number i
PushConditional(c, i, type, chosen) ==
    LET state == c.include_stack[i]
        skipping == ParentSkipping(state.conditional_stack) \/ ~chosen
    IN  IF ~get_conditional(c).ptr THEN get_conditional(c).c
        ELSE [get_conditional(c).c EXCEPT
                  !.include_stack[i].conditional_stack =
                    <<NewConditional(type, state.line - 1, skipping, chosen)>> \o @,
                  !.tally.pushed = @ + 1]

\* nl is what require_newline returned after the name, i the frame of the #ifdef
IfdefNewline(c, i, type, sym, nl) ==
    IF ~nl.rc
        THEN fail(SetTop(c, nl.fr),
                  IF type = "TOKEN_PP_IFDEF" THEN "Invalid #ifdef directive"
                  ELSE "Invalid #ifndef directive")
    ELSE PushConditional(SetTop(c, nl.fr), i, type,
                         (type = "TOKEN_PP_IFDEF")
                            = ~IsNull(find_define(SetTop(c, nl.fr), sym)))

\* fr holds the token after "#ifdef" or "#ifndef"
IfdefSymbol(c, type, fr) ==
    IF fr.tokenval # TOKEN_IDENTIFIER
        THEN fail(SetTop(c, fr), "Macro names must be indentifiers")
    ELSE IfdefNewline(c, Len(c.include_stack), type, Str(fr.token),
                      require_newline(fr))

_handle_pp_ifdef(c, type) == IfdefSymbol(c, type, lexer(Top(c)))

handle_pp_ifdef(c) == _handle_pp_ifdef(c, "TOKEN_PP_IFDEF")
handle_pp_ifndef(c) == _handle_pp_ifdef(c, "TOKEN_PP_IFNDEF")

IfReduced_always(r, i) == PushConditional(r.c, i, "TOKEN_PP_IF", r.rc = 1)

\* handle_pp_if once the expression is reduced: i is the frame of the #if
IfReduced(r, i) ==
    IF r.rc = -1 THEN r.c
    ELSE PushConditional(r.c, i, "TOKEN_PP_IF", r.rc = 1)

handle_pp_if(c) == IfReduced(reduce_pp_expression(c), Len(c.include_stack))

ElifReduced_again(r) ==
    LET conds == Top(r.c).conditional_stack
        cond == Head(conds)
    IN  IF r.rc = -1 THEN r.c
        ELSE IF conds = <<>> THEN fail(r.c, "#elif without #if")
        ELSE IF cond.type = "TOKEN_PP_ELSE" THEN fail(r.c, "#elif after #else")
        ELSE SetTop(r.c, [Top(r.c) EXCEPT !.conditional_stack[1] =
                NewConditional("TOKEN_PP_ELIF", cond.linenum,
                               ParentSkipping(Tail(conds)) \/ r.rc = 0, r.rc = 1)])

\* handle_pp_elif once the expression is reduced
ElifReduced(r) ==
    LET conds == Top(r.c).conditional_stack
        cond == Head(conds)
        skipping == ParentSkipping(Tail(conds)) \/ cond.chosen \/ r.rc = 0
    IN  IF r.rc = -1 THEN r.c
        ELSE IF conds = <<>> THEN fail(r.c, "#elif without #if")
        ELSE IF cond.type = "TOKEN_PP_ELSE" THEN fail(r.c, "#elif after #else")
        ELSE SetTop(r.c, [Top(r.c) EXCEPT !.conditional_stack[1] =
                NewConditional("TOKEN_PP_ELIF", cond.linenum, skipping,
                               cond.chosen \/ r.rc = 1)])

handle_pp_elif(c) == ElifReduced(reduce_pp_expression(c))

ElseNewline_flip(c, nl) ==
    LET conds == nl.fr.conditional_stack
        cond == Head(conds)
    IN  IF ~nl.rc THEN fail(SetTop(c, nl.fr), "Invalid #else directive")
        ELSE IF conds = <<>> THEN fail(SetTop(c, nl.fr), "#else without #if")
        ELSE SetTop(c, [nl.fr EXCEPT !.conditional_stack[1] =
                NewConditional("TOKEN_PP_ELSE", cond.linenum,
                               ParentSkipping(Tail(conds)) \/ ~cond.skipping, TRUE)])

\* nl is what require_newline returned after "#else"
ElseNewline(c, nl) ==
    LET conds == nl.fr.conditional_stack
        cond == Head(conds)
        skipping == ParentSkipping(Tail(conds)) \/ cond.chosen
    IN  IF ~nl.rc THEN fail(SetTop(c, nl.fr), "Invalid #else directive")
        ELSE IF conds = <<>> THEN fail(SetTop(c, nl.fr), "#else without #if")
        ELSE IF cond.type = "TOKEN_PP_ELSE"
            THEN fail(SetTop(c, nl.fr), "#else after #else")
        ELSE SetTop(c, [nl.fr EXCEPT !.conditional_stack[1] =
                NewConditional("TOKEN_PP_ELSE", cond.linenum, skipping, TRUE)])

handle_pp_else(c) == ElseNewline(c, require_newline(Top(c)))

EndifNewline_keep(c, nl) == [SetTop(c, nl.fr) EXCEPT !.tally.popped = @ + 1]

\* nl is what require_newline returned after "#endif"
EndifNewline(c, nl) ==
    IF ~nl.rc THEN fail(SetTop(c, nl.fr), "Invalid #endif directive")
    ELSE IF nl.fr.conditional_stack = <<>>
        THEN fail(SetTop(c, nl.fr), "Unmatched #endif")
    ELSE [SetTop(c, [nl.fr EXCEPT !.conditional_stack = Tail(@)])
            EXCEPT !.tally.popped = @ + 1, !.conditional_pool = @ + 1]

handle_pp_endif(c) == EndifNewline(c, require_newline(Top(c)))

UnterminatedMessage(type) ==
    CASE type = "TOKEN_PP_IF" -> "Unterminated #if"
      [] type = "TOKEN_PP_IFDEF" -> "Unterminated #ifdef"
      [] type = "TOKEN_PP_IFNDEF" -> "Unterminated #ifndef"
      [] type = "TOKEN_PP_ELSE" -> "Unterminated #else"
      [] type = "TOKEN_PP_ELIF" -> "Unterminated #elif"

unterminated_all(c) ==
    [SetTop(fail(c, UnterminatedMessage(Head(Top(c).conditional_stack).type)),
            [Top(c) EXCEPT !.conditional_stack = <<>>])
        EXCEPT !.tally.unterminated = @ + 1,
               !.conditional_pool = @ + Len(Top(c).conditional_stack)]

unterminated_pp_condition(c) ==
    LET state == Top(c)
        cond == Head(state.conditional_stack)
    IN  [SetTop(fail(c, UnterminatedMessage(cond.type)),
                [state EXCEPT !.conditional_stack = Tail(@)])
            EXCEPT !.tally.unterminated = @ + 1, !.conditional_pool = @ + 1]

(***************************************************************************)
(* Sessions: the arguments of preprocessor_start the model is run on.      *)
(***************************************************************************)
NL == <<"\n">>
Dir(word) == <<"#", word>>
DefineLine(sym, body) ==
    Dir("define") \o <<" ", sym>> \o (IF body = <<>> THEN <<>> ELSE <<" ">> \o body) \o NL
MacroLine(sym, parameters, body) ==
    Dir("define") \o <<" ", sym, "(">> \o parameters \o <<")", " ">> \o body \o NL
UndefLine(sym) == Dir("undef") \o <<" ", sym>> \o NL
IfLine(expr) == Dir("if") \o <<" ">> \o expr \o NL
ElifLine(expr) == Dir("elif") \o <<" ">> \o expr \o NL
IfdefLine(sym) == Dir("ifdef") \o <<" ", sym>> \o NL
IfndefLine(sym) == Dir("ifndef") \o <<" ", sym>> \o NL
ElseLine == Dir("else") \o NL
EndifLine == Dir("endif") \o NL
IncludeLine(fname) == Dir("include") \o <<" ", "\"", fname, "\"">> \o NL

RECURSIVE Flatten(_)
Flatten(lines) ==
    IF lines = <<>> THEN <<>> ELSE Head(lines) \o Flatten(Tail(lines))

\* the lines of the generated programs about conditionals
CondLines ==
    {IfLine(<<"1">>), IfLine(<<"0">>), IfLine(<<"(">>), IfdefLine("A"),
     IfndefLine("A"), ElifLine(<<"1">>), ElseLine, EndifLine, DefineLine("A", <<>>),
     <<"x">> \o NL}

CondPrograms ==
    {Flatten(lines) : lines \in UNION {[1..k -> CondLines] : k \in 0..MaxLines}}

\* names and bodies of the object-like macros of the generated programs
MacroNames == {"A", "B"}
MacroBodies == {<<>>, <<"x">>, <<"1", " ", "+", " ", "2">>, <<"y", "  ", "y">>, <<"(", "x", ")">>}

\* the line that uses the macro n, and a token after it
UseLine(n) == <<n, " ", "z">> \o NL

\* #define, use, #undef, #define again, use again
RedefineProgram(n, b) ==
    DefineLine(n, b) \o UseLine(n) \o UndefLine(n) \o DefineLine(n, b) \o UseLine(n)

\* #define twice, the second time with the body b2, then use
TwiceProgram(n, b, b2) == DefineLine(n, b) \o DefineLine(n, b2) \o UseLine(n)

RedefinePrograms ==
    {RedefineProgram(n, b) : n \in MacroNames, b \in MacroBodies}
    \cup {TwiceProgram(n, b, b2) : n \in MacroNames, b \in MacroBodies,
                                   b2 \in {<<>>, <<"y">>}}
    \cup {MacroLine("M", <<"x">>, <<"x", "+", "x">>) \o <<"M", "(", "3", ")">> \o NL
            \o UndefLine("M")
            \o MacroLine("M", <<"x">>, <<"x", "+", "x">>) \o <<"M", "(", "3", ")">> \o NL,
          MacroLine("M", <<"x">>, <<"x">>) \o Dir("define") \o <<" ", "M", "(", "x">> \o NL,
          DefineLine("A", <<>>) \o DefineLine("A", <<>>)}

StringifyProgram(arg) ==
    DefineLine("A", <<"1">>) \o MacroLine("S", <<"x">>, <<"#", "x">>)
        \o <<"S", "(">> \o arg \o <<")", " ", "z">> \o NL

PasteProgram(l, r) ==
    MacroLine("C", <<"a", ",", "b">>, <<"a", "##", "b">>)
        \o <<"C", "(">> \o l \o <<",">> \o r \o <<")", " ", "z">> \o NL

SkippedProgram(l) ==
    DefineLine("B", <<"1">>) \o IfLine(<<"0">>) \o l \o EndifLine \o <<"z">> \o NL

\* the arguments a stringifying or pasting macro is called with
CallArgs ==
    {<<"hello", " ", "world">>, <<" ", "hello", "  ", "world", " ">>,
     <<"a", " ", "b", "  ", "c">>, <<"A">>, <<"foo">>, <<>>, <<"x", "  ">>,
     <<"(", "x", ",", "y", ")">>}

StringifyPrograms == {StringifyProgram(arg) : arg \in CallArgs}

PastePrograms ==
    {PasteProgram(l, r)
        : l \in {<<"foo">>, <<>>, <<"x">>, <<" ", "foo", " ">>},
          r \in {<<"42">>, <<"x">>, <<>>, <<" ", "42">>}}

SkippedLines ==
    {DefineLine("A", <<"x">>), UndefLine("B"), IncludeLine("f"),
     Dir("include") \o <<" ", "<", "g", ">">> \o NL,
     Dir("line") \o <<" ", "7", " ", "\"", "g", "\"">> \o NL,
     Dir("error") \o <<" ", "hello", "  ", "world">> \o NL,
     Dir("pragma") \o <<" ", "once">> \o NL,
     <<"B", " ", "x", " ", "/*c*/", " ", "42">> \o NL,
     MacroLine("M", <<"x", ",", "y">>, <<"x", "+", "y">>),
     MacroLine("M", <<"x", ",", "y">>, <<"x", "+", "y">>) \o <<"M", "(", "3", ",", "4", ")">> \o NL,
     MacroLine("M", <<"x", ",", "y">>, <<"x", "+", "y">>) \o <<"M", "(", "3", ")">> \o NL,
     MacroLine("M", <<"x", ",", "y">>, <<"x", "+", "y">>) \o <<"M", " ", "z">> \o NL,
     <<"__LINE__", " ", "__FILE__">> \o NL,
     Dir("define") \o <<" ", "F", "(", ")", " ", "1">> \o NL \o <<"F", "(", ")">> \o NL,
     Dir("define") \o <<" ", "F", "(", "x">> \o NL,
     Dir("define") \o <<" ", "42">> \o NL,
     UndefLine("__LINE__") \o <<"__LINE__">> \o NL,
     <<"x", " ", "/*", " ", "y">> \o NL}

\* each line once in the open, once in a skipped branch, once in a taken one
BranchPrograms ==
    {DefineLine("B", <<"1">>) \o l : l \in SkippedLines}
    \cup {DefineLine("B", <<"1">>) \o IfLine(<<"0">>) \o l \o EndifLine \o <<"z">> \o NL
            : l \in SkippedLines}
    \cup {DefineLine("B", <<"1">>) \o IfdefLine("B") \o l \o ElseLine \o l \o EndifLine
            : l \in SkippedLines}

ScenarioPrograms ==
    {DefineLine("A", <<"A">>) \o <<"A">> \o NL,
     DefineLine("A", <<"A", " ", "A">>) \o <<"A">> \o NL,
     DefineLine("A", <<"1", " ", "A">>) \o <<"A">> \o NL,
     DefineLine("A", <<"B">>) \o DefineLine("B", <<"A">>) \o <<"A", " ", "z">> \o NL,
     DefineLine("A", <<"B">>) \o DefineLine("B", <<"42">>) \o <<"A", " ", "z">> \o NL,
     DefineLine("A", <<"1", "+", "2">>) \o <<"A", "*", "A">> \o NL,
     IfLine(<<"2", "+", "2", "==", "4">>) \o <<"y">> \o NL \o ElseLine
        \o <<"x">> \o NL \o EndifLine,
     DefineLine("A", <<"1">>) \o IfLine(<<"A", " ", "==", " ", "2">>) \o <<"x">> \o NL
        \o EndifLine,
     IfLine(<<"defined", "(", "F", ")">>) \o <<"1">> \o NL \o ElseLine \o <<"2">> \o NL
        \o EndifLine,
     IncludeLine("g") \o <<"z">> \o NL,
     IncludeLine("h") \o <<"z">> \o NL,
     IncludeLine("x") \o <<"z">> \o NL}

\* bodies with "##" at their start or at their end
HashHashBodies ==
    {<<"##", " ", "x">>, <<"##", "x">>, <<"x", " ", "##">>, <<"x", "##", " ">>,
     <<"##">>}

HashHashProgram(b) == DefineLine("A", b) \o UseLine("A")

\* a second definition of A, with "##" at the start of its body
HashHashTwice == DefineLine("A", <<"x">>) \o DefineLine("A", <<"##", "x">>)

HashHashPrograms ==
    {HashHashProgram(b) : b \in HashHashBodies}
    \cup {HashHashTwice}
    \cup {MacroLine("C", <<"a">>, b) \o <<"C", "(", "x", ")", " ", "z">> \o NL
            : b \in {<<"a", "##">>, <<"##", "a">>}}

\* function-like macros whose accepted body ends in "##" or in "#", called
HashEndPrograms ==
    {MacroLine("C", <<"a">>, b) \o <<"C", "(", "x", ")", " ", "z">> \o NL
        : b \in {<<"a", " ", "##", " ", "##">>, <<"#">>, <<"a", " ", "#">>,
                 <<"#", "a", " ", "##", "a">>}}

\* an #if with the lines y and z as its branches
BranchOn(expr) ==
    IfLine(expr) \o <<"y">> \o NL \o ElseLine \o <<"z">> \o NL \o EndifLine

\* expressions that divide by a zero, written or computed
ZeroDivisions ==
    {<<"1", "/", "0">>, <<"1", "%", "0">>, <<"4", "/", "(", "2", "-", "2", ")">>,
     <<"0", " ", "&&", " ", "1", "/", "0">>, <<"1", "/", "0", " ", "2">>}

ZeroDivPrograms ==
    {BranchOn(e) : e \in ZeroDivisions}
        \cup {IfLine(<<"0">>) \o ElifLine(e) \o <<"y">> \o NL \o EndifLine
                : e \in ZeroDivisions}

\* the macro tables the operator 'defined' is asked about, as #define lines
DefinedTables ==
    {<<>>, DefineLine("A", <<"0">>), DefineLine("A", <<>>) \o DefineLine("B", <<"x">>)}
DefinedNames == {"A", "B", "F", "__LINE__"}

DefinedProgram(d, X, paren) ==
    d \o BranchOn(IF paren THEN <<"defined", "(", X, ")">> ELSE <<"defined", " ", X>>)

\* 'defined' with no identifier after it, or after more than one "("
DefinedErrors ==
    {<<"defined">>, <<"defined", " ", "(", ")">>, <<"defined", " ", "1">>,
     <<"defined", "(", "(", "A", ")", ")">>, <<"defined", "(">>}

DefinedPrograms ==
    {DefinedProgram(d, X, paren)
        : d \in DefinedTables, X \in DefinedNames, paren \in BOOLEAN}
    \cup {DefineLine("A", <<>>) \o IfLine(e) : e \in DefinedErrors}

\* expressions with '+' and '-', and the values C gives them
SignCases ==
    {[expr |-> <<"1", " ", "-", " ", "-", "1">>, value |-> 2],
     [expr |-> <<"-", "1", " ", "<", " ", "0">>, value |-> 1],
     [expr |-> <<"1", " ", "+", " ", "+", "1">>, value |-> 2],
     [expr |-> <<"-", "1">>, value |-> -1],
     [expr |-> <<"-", "-", "1">>, value |-> 1],
     [expr |-> <<"+", "2">>, value |-> 2],
     [expr |-> <<"3", "-", "2", "-", "1">>, value |-> 0],
     [expr |-> <<"3", "-", "2", "+", "1">>, value |-> 2],
     [expr |-> <<"1", "+", "2", "-", "3", "+", "4">>, value |-> 4],
     [expr |-> <<"2", "*", "-", "3">>, value |-> -6],
     [expr |-> <<"F", "-", "1">>, value |-> -1]}

\* a '+' or '-' that follows something other than an integer literal
SignAfterOther ==
    {<<"(", "1", ")", " ", "-", " ", "1">>, <<"(", "1", ")", " ", "+", " ", "1">>}

SignPrograms ==
    {BranchOn(e.expr) : e \in SignCases} \cup {BranchOn(e) : e \in SignAfterOther}

\* well-formed integer-constant expressions, and the values C gives them
ExprCases ==
    {[expr |-> <<"1", "+", "2", "*", "3">>, value |-> 7],
     [expr |-> <<"(", "1", "+", "2", ")", "*", "3", "==", "9">>, value |-> 1],
     [expr |-> <<"7", "/", "2">>, value |-> 3],
     [expr |-> <<"-", "7", "/", "2">>, value |-> -3],
     [expr |-> <<"-", "7", "%", "2">>, value |-> -1],
     [expr |-> <<"1", "<<", "3">>, value |-> 8],
     [expr |-> <<"-", "8", ">>", "1">>, value |-> -4],
     [expr |-> <<"6", "&", "3">>, value |-> 2],
     [expr |-> <<"6", "|", "3">>, value |-> 7],
     [expr |-> <<"6", "^", "3">>, value |-> 5],
     [expr |-> <<"~", "5">>, value |-> -6],
     [expr |-> <<"!", "0", "&&", "~", "0">>, value |-> 1],
     [expr |-> <<"1", "||", "0", "&&", "0">>, value |-> 1],
     [expr |-> <<"2", ">", "1", ">", "0">>, value |-> 1],
     [expr |-> <<"2", "<=", "1", "==", "0">>, value |-> 1],
     [expr |-> <<"0", "==", "1", "!=", "1">>, value |-> 1],
     [expr |-> <<"1", "!=", "2", "==", "0">>, value |-> 0],
     [expr |-> <<"(", "2", ")", "*", "3">>, value |-> 6],
     [expr |-> <<"(", "1", ")", "+", "1">>, value |-> 2],
     [expr |-> <<"(", "3", ")", "-", "(", "1", ")">>, value |-> 2],
     [expr |-> <<"defined", " ", "F", "+", "1">>, value |-> 1],
     [expr |-> <<"defined", " ", "F", "||", "1">>, value |-> 1]}

ExprPrograms == {BranchOn(e.expr) : e \in ExprCases}

\* what comes after the definition of the macro M(x,y) or of F()
MacroCalls ==
    {<<"M", "(", "3", ",", "4", ")">>, <<"M", "(", "3", ")">>,
     <<"M", "(", "(", "3", ",", "4", ")", ",", "5", ")">>,
     <<"M", "(", "3", ",", "4", ",", "5", ")">>,
     <<"M", "(", ")">>, <<"M", " ", "z">>, <<"M">>,
     <<"M", " ", "(", " ", "a", " ", ",", "b", ")">>}
VoidCalls ==
    {<<"F", "(", ")">>, <<"F", "(", " ", ")">>, <<"F", "(", "  ", ")">>,
     <<"F", "(", "/*c*/", ")">>, <<"F", "(", "3", ")">>, <<"F", "(", ",", ")">>,
     <<"F", " ", "z">>, <<"F">>}

\* A is 1, and a macro with the parameters x and y and the body b is called
Substitute(b, call) ==
    DefineLine("A", <<"1">>) \o MacroLine("M", <<"x", ",", "y">>, b) \o call \o NL

\* bodies with parameters, other identifiers and "##", called with a macro
\* among the arguments
SubstitutePrograms ==
    {Substitute(<<"x", "+", "y">>, <<"M", "(", "A", ",", "4", ")">>),
     Substitute(<<"y", " ", "foo", "  ", "x">>, <<"M", "(", "3", ",", "A", ")">>),
     Substitute(<<"x", "##", "y">>, <<"M", "(", "A", ",", "z", ")">>),
     Substitute(<<"x", "##", "y">>, <<"M", "(", "z", ",", "A", ")">>),
     Substitute(<<"x", " ", "x", "##", "y", " ", "y">>, <<"M", "(", "A", ",", "A", ")">>)}

\* function-like macros, defined, defined again, undefined, and called
MacroPrograms ==
    {MacroLine("M", <<"x", ",", "y">>, <<"x", "+", "y">>) \o call \o <<" ", "z">> \o NL
        : call \in MacroCalls}
    \cup {MacroLine("F", <<>>, <<"x">>) \o call \o <<" ", "z">> \o NL : call \in VoidCalls}
    \cup {MacroLine("F", <<>>, <<"x">>) \o MacroLine("F", <<>>, <<"y">>) \o <<"z">> \o NL,
          MacroLine("M", <<"x", ",">>, <<"b">>) \o <<"z">> \o NL,
          MacroLine("M", <<"x", " ", "y">>, <<"b">>) \o <<"z">> \o NL,
          MacroLine("M", <<"x", ",", "x">>, <<"x">>) \o UndefLine("M")
            \o MacroLine("M", <<" ">>, <<"x">>) \o <<"M", "(", ")">> \o NL,
          MacroLine("M", <<"3">>, <<"b">>) \o DefineLine("M", <<"b">>)
            \o MacroLine("M", <<"a">>, <<"b">>) \o <<"M">> \o NL}
    \cup SubstitutePrograms

\* a chain #if e1, x, #elif e2, y, #else, z, #endif
Chain(e1, e2) ==
    IfLine(e1) \o <<"x">> \o NL \o ElifLine(e2) \o <<"y">> \o NL
        \o ElseLine \o <<"z">> \o NL \o EndifLine

\* the expressions of the chains: false, true, and one that does not parse
\* expressions that leave no value, leave two, starve an operator, or hold
\* a token the evaluator does not know
InvalidExprs ==
    {<<>>, <<"(", ")">>, <<"1", " ", "2">>, <<"+">>, <<"!">>, <<"1", " ", "-">>,
     <<"*", "2">>, <<"1", "&&">>, <<"1", "=", "1">>, <<"1", "?", "2">>}

InvalidIf(e) == IfLine(e) \o <<"y">> \o NL \o EndifLine

InvalidElif(e) == IfLine(<<"0">>) \o ElifLine(e) \o <<"y">> \o NL \o EndifLine

InvalidPrograms ==
    {InvalidIf(e) : e \in InvalidExprs} \cup {InvalidElif(e) : e \in InvalidExprs}

ChainExprs == {<<"0">>, <<"1">>, <<"(">>}

\* chains in the open, inside a skipped and inside a taken branch, with a
\* second #elif, with directives after the #else, and with a macro in #elif
ChainPrograms ==
    {Chain(e1, e2) : e1 \in ChainExprs, e2 \in ChainExprs}
    \cup {IfLine(<<"0">>) \o Chain(e1, e2) \o ElseLine \o Chain(e2, e1) \o EndifLine
            : e1 \in {<<"0">>, <<"1">>}, e2 \in {<<"0">>, <<"1">>}}
    \cup {IfLine(e1) \o <<"x">> \o NL \o ElifLine(e2) \o <<"y">> \o NL
            \o ElifLine(<<"1">>) \o <<"a">> \o NL \o EndifLine
            : e1 \in {<<"0">>, <<"1">>}, e2 \in {<<"0">>, <<"1">>}}
    \cup {IfLine(e1) \o <<"x">> \o NL \o ElseLine \o <<"y">> \o NL
            \o ElseLine \o <<"z">> \o NL \o ElifLine(<<"1">>) \o <<"a">> \o NL
            \o EndifLine \o ElseLine \o ElifLine(<<"1">>) \o <<"b">> \o NL
            : e1 \in {<<"0">>, <<"1">>}}
    \cup {ElifLine(e1) \o <<"x">> \o NL : e1 \in ChainExprs}
    \cup {IfLine(<<"1">>) \o ElseLine \o ElifLine(e1) \o <<"x">> \o NL \o EndifLine
            : e1 \in ChainExprs \cup {<<"1", " ", "1">>}}
    \cup {IfLine(<<"1">>) \o ElseLine \o Dir("else") \o <<" ", "x">> \o NL
            \o <<"y">> \o NL \o EndifLine}
    \cup {DefineLine("A", e2) \o IfLine(e1) \o <<"x">> \o NL \o ElifLine(<<"A">>)
            \o <<"y">> \o NL \o EndifLine
            : e1 \in {<<"0">>, <<"1">>}, e2 \in {<<"0">>, <<"1">>}}

\* an #ifdef with no name inside "#if 0", and the two #endif lines
NamelessIfdef ==
    IfLine(<<"0">>) \o Dir("ifdef") \o NL \o <<"x">> \o NL \o EndifLine
        \o <<"y">> \o NL \o EndifLine

\* #ifdef and #ifndef lines with no name, a number for one, or a second token
FailedIfPrograms ==
    {NamelessIfdef,
     IfLine(<<"1">>) \o IfLine(<<"1", " ", "(">>) \o <<"x">> \o NL \o EndifLine
        \o <<"y">> \o NL \o EndifLine}
    \cup {Dir(d) \o rest \o NL \o <<"x">> \o NL \o EndifLine
            : d \in {"ifdef", "ifndef"},
              rest \in {<<>>, <<" ", "42">>, <<" ", "A", " ", "B">>}}

PragmaLine(body) == Dir("pragma") \o <<" ">> \o body \o NL

\* #pragma lines among other lines, in a skipped branch, at the end of the
\* input with no newline, and at the end of an included file with none
PragmaPrograms ==
    {<<"x">> \o NL \o PragmaLine(<<"once", " ", "42">>) \o <<"y">> \o NL
        \o PragmaLine(<<"x">>) \o NL \o <<"z">> \o NL,
     IfLine(<<"0">>) \o PragmaLine(<<"once">>) \o EndifLine \o <<"z">> \o NL,
     DefineLine("A", <<"x", " ", "y">>) \o PragmaLine(<<"A">>) \o <<"z">> \o NL,
     <<"x">> \o NL \o Dir("pragma") \o <<" ", "once">>,
     IncludeLine("p") \o <<"z">> \o NL}

Programs ==
    ChainPrograms \cup InvalidPrograms \cup PragmaPrograms \cup FailedIfPrograms \cup MacroPrograms \cup CondPrograms \cup RedefinePrograms \cup StringifyPrograms \cup PastePrograms
        \cup BranchPrograms \cup ScenarioPrograms \cup HashHashPrograms
        \cup DefinedPrograms \cup SignPrograms \cup ExprPrograms

NewSession(source, defines, cb) ==
    [source |-> source, defines |-> defines, callbacks |-> cb,
     malloc_data |-> NoRefusal, ndebug |-> TRUE, traps |-> TRUE]

\* the same call on a target whose integer division does not trap
Untrapped(s) == [s EXCEPT !.traps = FALSE]

\* the same call on a build that compiles its assertions in
Asserting(s) == [s EXCEPT !.ndebug = FALSE]

\* the same call with an allocator that refuses request number nth of a size
Refusing(s, size, nth) ==
    [s EXCEPT !.malloc_data = [size |-> size, nth |-> nth, junk |-> <<>>]]

\* the same call with an allocator whose blocks are not zeroed
Unzeroed(s) == [s EXCEPT !.malloc_data.junk = <<JUNK>>]

\* uses, definitions and removals of the builtin macros
BuiltinPrograms ==
    {<<"__FILE__">> \o NL,
     <<"__LINE__">> \o NL \o <<"__LINE__">> \o NL,
     <<"z">> \o NL \o IncludeLine("b"),
     DefineLine("__FILE__", <<"x">>) \o <<"__FILE__">> \o NL,
     DefineLine("__LINE__", <<"7">>) \o <<"__LINE__">> \o NL \o <<"__LINE__">> \o NL,
     UndefLine("__FILE__") \o <<"__FILE__">> \o NL,
     UndefLine("__LINE__") \o DefineLine("__LINE__", <<"y">>) \o <<"__LINE__">> \o NL
        \o UndefLine("__LINE__") \o <<"__LINE__">> \o NL}

MaxRequests == 3
RefusedPrograms ==
    {IncludeLine("g") \o <<"z">> \o NL,
     IncludeLine("f"),
     IncludeLine("f") \o IfdefLine("A") \o <<"x">> \o NL \o EndifLine \o <<"z">> \o NL,
     IfLine(<<"1">>) \o <<"x">> \o NL \o EndifLine,
     IfndefLine("A") \o IfdefLine("A") \o EndifLine \o IfLine(<<"0">>) \o <<"x">> \o NL,
     DefineLine("A", <<"x">>) \o <<"A">> \o NL \o <<"A">>,
     Dir("error") \o <<" ", "x">> \o NL \o <<"z">> \o NL,
     EndifLine \o IncludeLine("h"),
     IncludeLine("x") \o IncludeLine("f") \o <<"z">> \o NL}
RefusedSessions ==
    {Refusing(NewSession(p, <<>>, TRUE), size, nth) :
        p \in RefusedPrograms, size \in Requests, nth \in 1..MaxRequests}
    \cup {Refusing(NewSession(<<"F">> \o NL, <<<<"F", <<"1">>>>>>, TRUE),
                   "sizeof (IncludeState)", nth) : nth \in 1..MaxRequests}

\* the call with F and B predefined
PredefinedSession ==
    NewSession(IfLine(<<"defined", "(", "F", ")">>) \o <<"1">> \o NL \o ElseLine
                    \o <<"2">> \o NL \o EndifLine,
               <<<<"F", <<"1">>>>, <<"B", <<"x">>>>>>, TRUE)

Sessions ==
    {NewSession(p, <<>>, TRUE) : p \in Programs \cup HashEndPrograms}
    \cup {Asserting(NewSession(p, <<>>, TRUE)) : p \in HashEndPrograms}
    \cup {NewSession(p, <<>>, TRUE) : p \in ZeroDivPrograms}
    \cup {Untrapped(NewSession(p, <<>>, TRUE)) : p \in ZeroDivPrograms}
    \cup {PredefinedSession,
          NewSession(IncludeLine("f") \o <<"z">> \o NL, <<>>, FALSE)}
    \cup RefusedSessions
    \cup {NewSession(p, <<>>, TRUE) : p \in BuiltinPrograms}
    \cup {Unzeroed(NewSession(p, <<>>, TRUE)) : p \in BuiltinPrograms}

\* the text of the "<predefined macros>" source, which is pushed with the
\* length define_include_len, the null terminator counted
RECURSIVE DefineInclude(_)
DefineInclude(defines) ==
    IF defines = <<>> THEN <<>>
    ELSE Dir("define") \o <<" ", Head(defines)[1], " ">> \o Head(defines)[2] \o NL
            \o DefineInclude(Tail(defines))

NewTally ==
    [ifs |-> 0, endifs |-> 0, unterminated |-> 0, pushed |-> 0, popped |-> 0,
     skipped |-> 0, evaluated |-> 0, value |-> 0,
     opened |-> <<>>, closed |-> <<>>, sigfpe |-> FALSE,
     sigsegv |-> FALSE, asserted |-> FALSE, zerodiv |-> FALSE, raised |-> <<>>]

\* the context preprocessor_start builds; d is the state of the allocator
StartContext(s, d) ==
    [include_stack |-> <<>>, define_hashtable |-> <<>>,
     file_macro |-> TRUE, line_macro |-> TRUE, isfail |-> FALSE,
     failstr |-> "", recursion_count |-> 0, parsing_pragma |-> FALSE,
     callbacks |-> s.callbacks, tally |-> NewTally, out_of_memory |-> FALSE,
     malloc_data |-> d, include_pool |-> 0, conditional_pool |-> 0,
     traps |-> s.traps]

\* while (ctx->include_stack != NULL) pop_source(ctx);
RECURSIVE PopSources(_)
PopSources(c) == IF c.include_stack = <<>> THEN c ELSE PopSources(pop_source(c))

\* what preprocessor_end leaves of a context it was given: every source
\* popped, the macros and the pools freed
preprocessor_end(c) ==
    [PopSources(c) EXCEPT !.define_hashtable = <<>>,
                          !.file_macro = FALSE, !.line_macro = FALSE,
                          !.include_pool = 0, !.conditional_pool = 0]

\* the sources are pushed: c1 has the caller's, c2 the predefined macros too
StartPushed(s, c0, c1, c2) ==
    IF Linked(c0, c1) /\ (s.defines = <<>> \/ Linked(c1, c2))
        THEN [pp |-> c2, okay |-> TRUE]
    ELSE [pp |-> preprocessor_end(c2), okay |-> FALSE]

StartSource(s, c0, c1) ==
    StartPushed(s, c0, c1,
        IF s.defines = <<>> \/ ~Linked(c0, c1) THEN c1
        ELSE push_source(c1, "<predefined macros>",
                         DefineInclude(s.defines) \o <<NUL>>, 1,
                         "close_define_include"))

\* ctx is what m returned for the Context; okay says a context is returned
StartAllocated(s, ctx) ==
    IF ~ctx.ptr
        THEN [pp |-> preprocessor_end(StartContext(s, ctx.d)), okay |-> FALSE]
    ELSE StartSource(s, StartContext(s, ctx.d),
                     push_source(StartContext(s, ctx.d), "main", s.source, 1, "NULL"))

preprocessor_start(s, d) == StartAllocated(s, m("sizeof (Context)", d))

\* MOJOSHADER_preprocess up to its loop: errors is what errorlist_create got
PreprocessStarted(s, errors) ==
    IF ~errors.ptr
        THEN [pp |-> preprocessor_end(StartContext(s, errors.d)), okay |-> FALSE]
    ELSE preprocessor_start(s, errors.d)

(***************************************************************************)
(* The state machine: one action per path through an iteration of the loop *)
(* of _preprocessor_nexttoken.                                             *)
(***************************************************************************)
Ctx ==
    [include_stack |-> include_stack, define_hashtable |-> define_hashtable,
     file_macro |-> file_macro, line_macro |-> line_macro, isfail |-> isfail,
     failstr |-> failstr, recursion_count |-> recursion_count,
     parsing_pragma |-> parsing_pragma, callbacks |-> callbacks, tally |-> tally,
     out_of_memory |-> out_of_memory, malloc_data |-> malloc_data,
     include_pool |-> include_pool, conditional_pool |-> conditional_pool,
     traps |-> session.traps]

Commit(c) ==
    /\ Len(c.include_stack) <= MaxFrames
    /\ include_stack' = c.include_stack
    /\ define_hashtable' = c.define_hashtable
    /\ file_macro' = c.file_macro
    /\ line_macro' = c.line_macro
    /\ isfail' = c.isfail
    /\ failstr' = c.failstr
    /\ recursion_count' = c.recursion_count
    /\ parsing_pragma' = c.parsing_pragma
    /\ tally' = c.tally
    /\ out_of_memory' = c.out_of_memory
    /\ malloc_data' = c.malloc_data
    /\ include_pool' = c.include_pool
    /\ conditional_pool' = c.conditional_pool
    /\ UNCHANGED <<callbacks, session, calc>>

out_of_mem_data_preprocessor == "out_of_mem_data_preprocessor"

\* the state when MOJOSHADER_preprocess first calls preprocessor_nexttoken,
\* or when it has returned without calling it
Started(r) ==
    /\ include_stack = r.pp.include_stack
    /\ define_hashtable = r.pp.define_hashtable
    /\ file_macro = r.pp.file_macro
    /\ line_macro = r.pp.line_macro
    /\ isfail = r.pp.isfail
    /\ failstr = r.pp.failstr
    /\ recursion_count = r.pp.recursion_count
    /\ parsing_pragma = r.pp.parsing_pragma
    /\ callbacks = r.pp.callbacks
    /\ tally = r.pp.tally
    /\ out_of_memory = r.pp.out_of_memory
    /\ malloc_data = r.pp.malloc_data
    /\ include_pool = r.pp.include_pool
    /\ conditional_pool = r.pp.conditional_pool
    /\ retval = IF r.okay THEN "" ELSE out_of_mem_data_preprocessor

\* calculator.c is a program of its own: it is not running
NoExpression == [expr |-> <<>>, done |-> FALSE, result |-> 0]

Init ==
    /\ session \in Sessions
    /\ Started(PreprocessStarted(session, m("sizeof (ErrorList)", session.malloc_data)))
    /\ returned = <<>>
    /\ calc = NoExpression

Done == returned # <<>> /\ returned[Len(returned)].token = TOKEN_EOI

\* the loop is past its first two tests: nothing staged, a frame to lex from
\* the process was killed by a trap
Killed == tally.sigfpe \/ tally.sigsegv \/ (tally.asserted /\ ~session.ndebug)

Lexing == retval = "" /\ ~Done /\ ~Killed /\ ~isfail /\ include_stack # <<>>

\* const int skipping = ((cond != NULL) && (cond->skipping));
Skipping_never == FALSE

Skipping ==
    /\ include_stack[Len(include_stack)].conditional_stack # <<>>
    /\ Head(include_stack[Len(include_stack)].conditional_stack).skipping

\* some conditional of the frame being lexed is skipping
InSkipped ==
    /\ include_stack # <<>>
    /\ \E i \in DOMAIN include_stack[Len(include_stack)].conditional_stack :
            include_stack[Len(include_stack)].conditional_stack[i].skipping

\* const Token token = lexer(state);
Token == lexer(include_stack[Len(include_stack)]).tokenval

\* the context after the token is lexed and the recursion counter reset
Lexed ==
    [LexTop(Ctx) EXCEPT !.recursion_count = IF Token # TOKEN_IDENTIFIER THEN 0 ELSE @]

ConditionalTokens ==
    {"TOKEN_PP_IFDEF", "TOKEN_PP_IFNDEF", "TOKEN_PP_IF", "TOKEN_PP_ELIF",
     "TOKEN_PP_ENDIF", "TOKEN_PP_ELSE"}
DirectiveTokens ==
    {"TOKEN_PP_INCLUDE", "TOKEN_PP_LINE", "TOKEN_PP_ERROR", "TOKEN_PP_DEFINE",
     "TOKEN_PP_UNDEF"}

\* the file of the frame being lexed, "" once the include stack is empty
File == IF include_stack = <<>> THEN "" ELSE include_stack[Len(include_stack)].filename

Return(token, text) ==
    returned' = Append(returned, [token |-> token, text |-> text,
                                  inskipped |-> InSkipped, file |-> File])

\* MOJOSHADER_preprocess returns its out-of-memory record: the context c is ended
OutOfMemory(c) == [c |-> preprocessor_end(c), retval |-> out_of_mem_data_preprocessor]

\* the body of the loop of MOJOSHADER_preprocess for a token that is not an
\* error, c being the context the iterator left: the text is appended, and
\* the call ends once the flag is seen
Appended(c) ==
    IF c.out_of_memory THEN OutOfMemory(c) ELSE [c |-> c, retval |-> ""]

\* the same for an error, item being what errorlist_add got for its item
Added(c, item) ==
    IF c.out_of_memory THEN OutOfMemory(c)
    ELSE IF ~item.ptr THEN OutOfMemory([c EXCEPT !.malloc_data = item.d])
    ELSE [c |-> [c EXCEPT !.malloc_data = item.d], retval |-> ""]

\* r is what the body of the loop left
Looped(r) == Commit(r.c) /\ retval' = r.retval

ReturnError ==
    /\ retval = "" /\ ~Done /\ ~Killed
    /\ isfail
    /\ Return(TOKEN_PREPROCESSING_ERROR, failstr)
    /\ Looped(Added([Ctx EXCEPT !.isfail = FALSE],
                    m("sizeof (ErrorItem)", malloc_data)))

ReturnEOI ==
    /\ retval = "" /\ ~Done /\ ~Killed
    /\ ~isfail
    /\ include_stack = <<>>
    /\ Return(TOKEN_EOI, "")
    /\ UNCHANGED <<include_stack, define_hashtable, file_macro, line_macro, isfail,
                   failstr, recursion_count, parsing_pragma, callbacks, tally, session, calc,
                   out_of_memory, malloc_data, include_pool, conditional_pool, retval>>

\* MOJOSHADER_preprocess after its loop, record being what m returned for
\* the result: the context is ended and the result is built
Built(c, record) ==
    [c |-> [preprocessor_end(c) EXCEPT !.malloc_data = record.d],
     retval |-> IF record.ptr THEN "MOJOSHADER_preprocessData"
                ELSE out_of_mem_data_preprocessor]

Preprocessed ==
    /\ retval = "" /\ Done
    /\ Looped(Built(Ctx, m("sizeof (MOJOSHADER_preprocessData)", malloc_data)))
    /\ UNCHANGED returned

UnterminatedCondition ==
    /\ Lexing /\ Token = TOKEN_EOI
    /\ Top(Lexed).conditional_stack # <<>>
    /\ Commit(unterminated_pp_condition(Lexed))
    /\ UNCHANGED <<returned, retval>>

PopSource ==
    /\ Lexing /\ Token = TOKEN_EOI
    /\ Top(Lexed).conditional_stack = <<>>
    /\ Commit(pop_source(Lexed))
    /\ UNCHANGED <<returned, retval>>

IncompleteComment ==
    /\ Lexing /\ Token = TOKEN_INCOMPLETE_COMMENT
    /\ Commit(fail(Lexed, "Incomplete multiline comment"))
    /\ UNCHANGED <<returned, retval>>

CountIf(c) == [c EXCEPT !.tally.ifs = @ + 1]
CountEndif(c) == [c EXCEPT !.tally.endifs = @ + 1]

Ifdef ==
    /\ Lexing /\ Token = "TOKEN_PP_IFDEF"
    /\ Commit(handle_pp_ifdef(CountIf(Lexed)))
    /\ UNCHANGED <<returned, retval>>

Ifndef ==
    /\ Lexing /\ Token = "TOKEN_PP_IFNDEF"
    /\ Commit(handle_pp_ifndef(CountIf(Lexed)))
    /\ UNCHANGED <<returned, retval>>

If ==
    /\ Lexing /\ Token = "TOKEN_PP_IF"
    /\ Commit(handle_pp_if(CountIf(Lexed)))
    /\ UNCHANGED <<returned, retval>>

Elif ==
    /\ Lexing /\ Token = "TOKEN_PP_ELIF"
    /\ Commit(handle_pp_elif(Lexed))
    /\ UNCHANGED <<returned, retval>>

Endif ==
    /\ Lexing /\ Token = "TOKEN_PP_ENDIF"
    /\ Commit(handle_pp_endif(CountEndif(Lexed)))
    /\ UNCHANGED <<returned, retval>>

Else ==
    /\ Lexing /\ Token = "TOKEN_PP_ELSE"
    /\ Commit(handle_pp_else(Lexed))
    /\ UNCHANGED <<returned, retval>>

\* just keep dumping tokens until we get end of block
SkipToken ==
    /\ Lexing /\ Skipping
    /\ Token \notin ConditionalTokens \cup {TOKEN_EOI, TOKEN_INCOMPLETE_COMMENT}
    /\ Commit([Lexed EXCEPT !.tally.skipped = @ + 1])
    /\ UNCHANGED <<returned, retval>>

Include ==
    /\ Lexing /\ ~Skipping /\ Token = "TOKEN_PP_INCLUDE"
    /\ Commit(handle_pp_include(Lexed))
    /\ UNCHANGED <<returned, retval>>

Line ==
    /\ Lexing /\ ~Skipping /\ Token = "TOKEN_PP_LINE"
    /\ Commit(handle_pp_line(Lexed))
    /\ UNCHANGED <<returned, retval>>

Error ==
    /\ Lexing /\ ~Skipping /\ Token = "TOKEN_PP_ERROR"
    /\ Commit(handle_pp_error(Lexed))
    /\ UNCHANGED <<returned, retval>>

\* what the read through the NULL array does is undefined: the process is
\* killed by it, or it goes on
Define ==
    /\ Lexing /\ ~Skipping /\ Token = "TOKEN_PP_DEFINE"
    /\ \E killed \in BOOLEAN :
            Commit([handle_pp_define(Lexed) EXCEPT !.tally.sigsegv = @ /\ killed])
    /\ UNCHANGED <<returned, retval>>

Undef ==
    /\ Lexing /\ ~Skipping /\ Token = "TOKEN_PP_UNDEF"
    /\ Commit(handle_pp_undef(Lexed))
    /\ UNCHANGED <<returned, retval>>

Pragma ==
    /\ Lexing /\ ~Skipping /\ Token = "TOKEN_PP_PRAGMA"
    /\ Looped(Appended([Lexed EXCEPT !.parsing_pragma = TRUE]))
    /\ Return(Token, Str(Top(Lexed).token))

\* handle_pp_identifier pushed the include_stack
Pushed(r) ==
    /\ r.rc = 1
    /\ Commit(r.c)
    /\ UNCHANGED <<returned, retval>>

ExpandIdentifier ==
    /\ Lexing /\ ~Skipping /\ Token = TOKEN_IDENTIFIER
    /\ Pushed(handle_pp_identifier(Lexed))

\* the token goes through: returned with the frame's current token
SentThrough(r) ==
    /\ r.rc = 0
    /\ Looped(Appended(r.c))
    /\ Return(TOKEN_IDENTIFIER, Str(Top(r.c).token))

ReturnIdentifier ==
    /\ Lexing /\ ~Skipping /\ Token = TOKEN_IDENTIFIER
    /\ SentThrough(handle_pp_identifier(Lexed))

\* preprocessor is line-oriented, nothing else gets newlines
SwallowNewline ==
    /\ Lexing /\ ~Skipping /\ Token = "\n"
    /\ ~parsing_pragma
    /\ Commit(Lexed)
    /\ UNCHANGED <<returned, retval>>

PragmaNewline ==
    /\ Lexing /\ ~Skipping /\ Token = "\n"
    /\ parsing_pragma
    /\ Looped(Appended([Lexed EXCEPT !.parsing_pragma = FALSE]))
    /\ Return(Token, Str(Top(Lexed).token))

ReturnToken ==
    /\ Lexing /\ ~Skipping
    /\ Token \notin ConditionalTokens \cup DirectiveTokens
            \cup {TOKEN_EOI, TOKEN_INCOMPLETE_COMMENT, "TOKEN_PP_PRAGMA",
                  TOKEN_IDENTIFIER, "\n"}
    /\ Looped(Appended(Lexed))
    /\ Return(Token, Str(Top(Lexed).token))

Next ==
    \/ ReturnError
    \/ ReturnEOI
    \/ Preprocessed
    \/ UnterminatedCondition
    \/ PopSource
    \/ IncompleteComment
    \/ Ifdef
    \/ Ifndef
    \/ If
    \/ Elif
    \/ Endif
    \/ Else
    \/ SkipToken
    \/ Include
    \/ Line
    \/ Error
    \/ Define
    \/ Undef
    \/ Pragma
    \/ ExpandIdentifier
    \/ ReturnIdentifier
    \/ SwallowNewline
    \/ PragmaNewline
    \/ ReturnToken

Spec == Init /\ [][Next]_vars

(***************************************************************************)
(* calculator.c: the expression trees the parser builds, and run_expr.     *)
(* A double that holds an integer is that integer; CalcExprs holds only    *)
(* expressions whose values, and the values of their operands, are such.   *)
(***************************************************************************)
UnaryOperators ==
    {"OP_POSTINCREMENT", "OP_POSTDECREMENT", "OP_PREINCREMENT", "OP_PREDECREMENT",
     "OP_NEGATE", "OP_COMPLEMENT", "OP_NOT"}

BinaryOperators ==
    {"OP_COMMA", "OP_MULTIPLY", "OP_DIVIDE", "OP_MODULO", "OP_ADD", "OP_SUBTRACT",
     "OP_LSHIFT", "OP_RSHIFT", "OP_LESSTHAN", "OP_GREATERTHAN",
     "OP_LESSTHANOREQUAL", "OP_GREATERTHANOREQUAL", "OP_EQUAL", "OP_NOTEQUAL",
     "OP_BINARYAND", "OP_BINARYXOR", "OP_BINARYOR", "OP_LOGICALAND",
     "OP_LOGICALOR", "OP_ASSIGN"}

operator_is_unary(op) == op \in UnaryOperators
operator_is_binary(op) == op \in BinaryOperators
operator_is_ternary(op) == op = "OP_CONDITIONAL"

new_unary_expr(op, operand) == [op |-> op, operand |-> operand]
new_binary_expr(op, left, right) == [op |-> op, left |-> left, right |-> right]
new_ternary_expr(op, left, center, right) ==
    [op |-> op, left |-> left, center |-> center, right |-> right]
new_literal_int_expr(value) == [op |-> "OP_INT_LITERAL", value |-> value]

RECURSIVE run_expr(_)
run_expr(expr) ==
    IF operator_is_unary(expr.op) THEN
        CASE expr.op = "OP_NEGATE" -> -run_expr(expr.operand)
          [] expr.op = "OP_COMPLEMENT" -> BitNot(run_expr(expr.operand))
          [] expr.op = "OP_NOT" -> Bool(run_expr(expr.operand) = 0)
          [] OTHER -> 0
    ELSE IF operator_is_binary(expr.op) THEN
        LET left == run_expr(expr.left)
            right == run_expr(expr.right)
        IN  CASE expr.op = "OP_MULTIPLY" -> left * right
              [] expr.op = "OP_DIVIDE" -> CDiv(left, right)
              [] expr.op = "OP_ADD" -> left + right
              [] expr.op = "OP_SUBTRACT" -> left - right
              [] expr.op = "OP_LESSTHAN" -> Bool(left < right)
              [] expr.op = "OP_GREATERTHAN" -> Bool(left > right)
              [] expr.op = "OP_LESSTHANOREQUAL" -> Bool(left <= right)
              [] expr.op = "OP_GREATERTHANOREQUAL" -> Bool(left >= right)
              [] expr.op = "OP_EQUAL" -> Bool(left = right)
              [] expr.op = "OP_NOTEQUAL" -> Bool(left = right)
              [] expr.op = "OP_LOGICALAND" -> Bool(left # 0 /\ right # 0)
              [] expr.op = "OP_LOGICALOR" -> Bool(left # 0 \/ right # 0)
              [] expr.op = "OP_BINARYAND" -> BitAnd(left, right)
              [] expr.op = "OP_BINARYOR" -> BitOr(left, right)
              [] expr.op = "OP_BINARYXOR" -> BitXor(left, right)
              [] expr.op = "OP_LSHIFT" -> left * Pow2(right)
              [] expr.op = "OP_RSHIFT" -> (left - (left % Pow2(right))) \div Pow2(right)
              [] expr.op = "OP_MODULO" -> CMod(left, right)
              [] OTHER -> 0
    ELSE IF operator_is_ternary(expr.op) THEN
        IF run_expr(expr.left) # 0 THEN run_expr(expr.center)
        ELSE run_expr(expr.right)
    ELSE IF expr.op = "OP_INT_LITERAL" THEN expr.value
    ELSE 0

MaxLiteral == 2      \* the largest integer literal of a calculator expression
Literals == {new_literal_int_expr(v) : v \in -1..MaxLiteral}

\* the operands C gives a value for: no zero divisor, a quotient that is an
\* integer, and shifts of a value that is not negative by a count that is not
Computable(op, l, r) ==
    /\ op \in {"OP_DIVIDE", "OP_MODULO"} => r.value # 0
    /\ op = "OP_DIVIDE" => CMod(l.value, r.value) = 0
    /\ op \in {"OP_LSHIFT", "OP_RSHIFT"} => l.value >= 0 /\ r.value >= 0

Operations ==
    {new_unary_expr(op, l) : op \in UnaryOperators, l \in Literals}
        \cup {e \in {new_binary_expr(op, l, r)
                        : op \in BinaryOperators, l \in Literals, r \in Literals}
                : Computable(e.op, e.left, e.right)}

\* literals, one operation, a comparison of an operation with a literal,
\* and a choice between two literals
CalcExprs ==
    Literals \cup Operations
        \cup {new_binary_expr(op, new_binary_expr("OP_ADD", l, r), r)
                : op \in {"OP_EQUAL", "OP_NOTEQUAL"}, l \in Literals, r \in Literals}
        \cup {new_ternary_expr("OP_CONDITIONAL", l, c, r)
                : l \in Literals, c \in Literals, r \in Literals}

\* the parser has built an expression and parse_complete has not run; the
\* preprocessor is as it is started on an empty source and stays so
CalcInit ==
    /\ session = NewSession(<<>>, <<>>, FALSE)
    /\ Started(PreprocessStarted(session, m("sizeof (ErrorList)", session.malloc_data)))
    /\ returned = <<>>
    /\ calc \in {[expr |-> e, done |-> FALSE, result |-> 0] : e \in CalcExprs}

\* parse_complete prints the value run_expr gives for the expression
ParseComplete ==
    /\ ~calc.done
    /\ calc' = [calc EXCEPT !.done = TRUE, !.result = run_expr(calc.expr)]
    /\ UNCHANGED <<include_stack, define_hashtable, file_macro, line_macro, isfail,
                   failstr, recursion_count, parsing_pragma, callbacks, returned,
                   tally, out_of_memory, malloc_data, include_pool,
                   conditional_pool, retval, session>>

CalcNext == ParseComplete

CalcSpec == CalcInit /\ [][CalcNext]_vars

(***************************************************************************)
(* What the caller has been given, and the programs the properties name.   *)
(***************************************************************************)
\* the tokens returned so far, as <<token, text>> pairs
Stream == [i \in DOMAIN returned |-> <<returned[i].token, returned[i].text>>]

Eoi == <<TOKEN_EOI, "">>
ErrorToken(reason) == <<TOKEN_PREPROCESSING_ERROR, reason>>
Identifier(text) == <<TOKEN_IDENTIFIER, text>>
IntLiteral(text) == <<TOKEN_INT_LITERAL, text>>
StringLiteral(text) == <<TOKEN_STRING_LITERAL, "\"" \o text \o "\"">>

\* the run is over and the source was p
Ran(p) ==
    /\ Done /\ session.source = p /\ session.defines = <<>>
    /\ session.malloc_data = NoRefusal /\ retval = ""

\* no error token was returned
NoErrors == \A i \in DOMAIN returned : returned[i].token # TOKEN_PREPROCESSING_ERROR

SelfProgram == DefineLine("A", <<"A">>) \o <<"A">> \o NL
TwiceSelfProgram == DefineLine("A", <<"A", " ", "A">>) \o <<"A">> \o NL
ResetSelfProgram == DefineLine("A", <<"1", " ", "A">>) \o <<"A">> \o NL

\* C1: whatever the source and the macros, the caller is given end-of-input
\* after finitely many calls: no run of these sources, of three lines at most,
\* is still short of end-of-input when it has returned MaxCalls tokens.
C1_Terminates == Len(returned) >= MaxCalls => Done

\* C2: for "#define A A" newline "A" newline the caller is given exactly one
\* error "Recursing macros" and then end-of-input, and no other token.
C2_OnlyTheError ==
    Ran(SelfProgram) => Stream = <<ErrorToken("Recursing macros"), Eoi>>

\* the conditionals open in the frames of the include stack
RECURSIVE OpenConditionals(_)
OpenConditionals(stack) ==
    IF stack = <<>> THEN 0
    ELSE Len(Head(stack).conditional_stack) + OpenConditionals(Tail(stack))

\* C3 (as stated): at end-of-input the #endif directives handled plus the
\* unterminated-conditional errors are as many as the #if, #ifdef and #ifndef
\* directives handled.
C3_Handled == Done => tally.endifs + tally.unterminated = tally.ifs

\* C3 (amended): the #endif directives that close a conditional plus the
\* unterminated-conditional errors plus the conditionals still open are as many
\* as the #if, #ifdef and #ifndef directives that opened one; at end-of-input
\* none is open.
C3_Balanced ==
    /\ retval = "" => tally.popped + tally.unterminated
                        + OpenConditionals(include_stack) = tally.pushed
    /\ Done => tally.popped + tally.unterminated = tally.pushed

\* a conditional was closed by its #endif, another by the end of the source
C3_Witness == Done /\ tally.popped > 0 /\ tally.unterminated > 0

\* what a skipped branch must leave alone: the macro table, the frames of the
\* include stack with their filenames, the staged error, what was returned
Frames == [i \in DOMAIN include_stack |->
            <<include_stack[i].filename, include_stack[i].source_base>>]
Kept == <<define_hashtable, file_macro, line_macro, Frames, isfail, returned>>

\* the innermost conditional of the current frame is skipping, and the next
\* token of the frame is neither its end nor one of kinds
SkippedOver(kinds) ==
    /\ ~Done /\ ~isfail /\ include_stack # <<>>
    /\ Top(Ctx).conditional_stack # <<>>
    /\ Head(Top(Ctx).conditional_stack).skipping
    /\ lexer(Top(Ctx)).tokenval \notin kinds \cup {TOKEN_EOI}

UniqueIdentifiers ==
    \A i, j \in DOMAIN define_hashtable :
        define_hashtable[i].identifier = define_hashtable[j].identifier => i = j

\* the next directive is a #define of the name sym
Defining(sym) ==
    /\ ~Done /\ ~isfail /\ include_stack # <<>>
    /\ ~(Top(Ctx).conditional_stack # <<>> /\ Head(Top(Ctx).conditional_stack).skipping)
    /\ lexer(Top(Ctx)).tokenval = "TOKEN_PP_DEFINE"
    /\ lexer(lexer(Top(Ctx))).tokenval = TOKEN_IDENTIFIER
    /\ Str(lexer(lexer(Top(Ctx))).token) = sym

InTable(sym) == \E i \in DOMAIN define_hashtable : define_hashtable[i].identifier = sym

\* the parameter list of that #define does not close: no ")" where one is due
MalformedParameters ==
    LET name == lexer(lexer(Top(Ctx)))
        open == [lexer([name EXCEPT !.report_whitespace = TRUE])
                    EXCEPT !.report_whitespace = FALSE]
    IN  open.tokenval = "(" /\ ParamScan(lexer(open), 0).fr.tokenval # ")"

\* the step over a #define of sym, a name of the table, stages reason and
\* leaves the table as it was
Refused(sym, reason) ==
    Defining(sym) /\ InTable(sym) =>
        /\ define_hashtable' = define_hashtable
        /\ isfail'
        /\ failstr' = reason

TwiceDefined ==
    Ran(DefineLine("A", <<>>) \o DefineLine("A", <<>>))
        => Stream = <<ErrorToken("'A' already defined"), Eoi>>

Twice(seq) ==
    /\ Len(seq) % 2 = 0
    /\ \A i \in 1..(Len(seq) \div 2) : seq[i] = seq[i + Len(seq) \div 2]

\* C7: #define A X, #undef A, #define A X gives no error, and A then expands
\* to what it expanded to after the first #define A X.
C7_DefineUndefDefine ==
    \A n \in MacroNames, b \in MacroBodies :
        Ran(RedefineProgram(n, b)) =>
            /\ NoErrors
            /\ Twice(SubSeq(Stream, 1, Len(Stream) - 1))
            /\ Len(define_hashtable) = 1

C7_Witness ==
    /\ Ran(RedefineProgram("A", <<"1", " ", "+", " ", "2">>))
    /\ Stream = <<IntLiteral("1"), <<"+", "+">>, IntLiteral("2"), Identifier("z"),
                  IntLiteral("1"), <<"+", "+">>, IntLiteral("2"), Identifier("z"), Eoi>>

ChainProgram ==
    DefineLine("A", <<"B">>) \o DefineLine("B", <<"42">>) \o <<"A", " ", "z">> \o NL

\* C8: after "#define A B" and "#define B 42", an A in the source gives the
\* token 42, before the token that follows the A.
C8_Transitive ==
    Ran(ChainProgram) => Stream = <<IntLiteral("42"), Identifier("z"), Eoi>>

C8_Witness == Ran(ChainProgram) /\ Len(returned) = 3 /\ Len(define_hashtable) = 2


\* the text of an argument: the whitespace at its ends removed, each run of
\* whitespace inside it a single space
RECURSIVE Collapsed(_)
Collapsed(arg) ==
    IF arg = <<>> THEN ""
    ELSE IF Head(arg) \in SpaceAtoms
        THEN (IF Tail(arg) = <<>> THEN "" ELSE " " \o Collapsed(Tail(arg)))
    ELSE Head(arg) \o Collapsed(Tail(arg))

Trimmed(arg) ==
    Collapsed(IF arg # <<>> /\ Head(arg) \in SpaceAtoms THEN Tail(arg) ELSE arg)

C10_Paste ==
    /\ Ran(PasteProgram(<<"foo">>, <<"42">>))
            => Stream = <<Identifier("foo42"), Identifier("z"), Eoi>>
    /\ Ran(PasteProgram(<<>>, <<"x">>))
            => Stream = <<Identifier("x"), Identifier("z"), Eoi>>
    /\ Ran(PasteProgram(<<"x">>, <<"42">>))
            => Stream = <<Identifier("x42"), Identifier("z"), Eoi>>
    /\ Ran(PasteProgram(<<"x">>, <<"x">>))
            => Stream = <<Identifier("xx"), Identifier("z"), Eoi>>

C10_Witness ==
    /\ Ran(PasteProgram(<<"foo">>, <<"42">>))
    /\ Stream[1] = Identifier("foo42")


\* the caller was given an error token with this message
Reported(reason) == \E i \in DOMAIN returned : Stream[i] = ErrorToken(reason)

\* C11: a #define whose body starts or ends with "##" is rejected: the error
\* "'##' cannot appear at either end of a macro expansion" is given, and the
\* name is not in the macro table afterwards.
C11_HashHashRejected ==
    \A b \in HashHashBodies :
        Ran(HashHashProgram(b)) =>
            /\ Reported("'##' cannot appear at either end of a macro expansion")
            /\ ~InTable("A")

\* sym is defined by one of the #define lines of d, or is a builtin
DefinedBy(d, sym) ==
    \/ sym \in {"__FILE__", "__LINE__"}
    \/ \E i \in 1..(Len(d) - 3) :
            d[i] = "#" /\ d[i + 1] = "define" /\ d[i + 3] = sym

\* C12: "#if defined(X)" and "#if defined X" choose the same branch, the one
\* taken iff X is a macro, X itself not being expanded; 'defined' with no
\* identifier after it (after one "(" at most) is an error, as "defined((X))".
C12_Defined ==
    /\ \A d \in DefinedTables, X \in DefinedNames, paren \in BOOLEAN :
            Ran(DefinedProgram(d, X, paren)) =>
                Stream = <<Identifier(IF DefinedBy(d, X) THEN "y" ELSE "z"), Eoi>>
    /\ \A e \in DefinedErrors :
            Ran(DefineLine("A", <<>>) \o IfLine(e)) =>
                /\ Stream[1] = ErrorToken("operator 'defined' requires an identifier")
                /\ tally.pushed = 0

\* both forms were asked about a macro whose body is 0, and an error was given
\* for "defined((A))"
C12_Witness ==
    \/ /\ Ran(DefinedProgram(DefineLine("A", <<"0">>), "A", TRUE))
       /\ Stream = <<Identifier("y"), Eoi>>
    \/ /\ Ran(DefinedProgram(DefineLine("A", <<"0">>), "A", FALSE))
       /\ Stream = <<Identifier("y"), Eoi>>
    \/ /\ Ran(DefineLine("A", <<>>) \o IfLine(<<"defined", "(", "(", "A", ")", ")">>))
       /\ Len(Stream) > 2

\* the run is over, the source was "#if expr" with its two branches, and the
\* expression was evaluated to val
Evaluated(expr, val) ==
    /\ Ran(BranchOn(expr))
    /\ tally.evaluated = 1 /\ tally.value = val
    /\ Stream = <<Identifier(IF val # 0 THEN "y" ELSE "z"), Eoi>>

\* C13: in an #if expression a '+' or '-' is binary, and left-associative,
\* exactly when the token before it was an integer literal, and unary
\* otherwise: 1 - -1 is 2, -1 < 0 is 1, 1 + +1 is 2; after a ")" the
\* operator is unary, which leaves two values and so is an invalid expression.
C13_UnaryBinary ==
    /\ \A e \in SignCases : Ran(BranchOn(e.expr)) => Evaluated(e.expr, e.value)
    /\ \A e \in SignAfterOther :
            Ran(BranchOn(e)) =>
                /\ tally.evaluated = 0
                /\ Stream[1] = ErrorToken("Invalid expression")

C13_Witness == Evaluated(<<"1", " ", "-", " ", "-", "1">>, 2)

\* C14: the value of a well-formed #if expression over the supported
\* operators ("==" and "!=" at one precedence level, a binary operator after
\* a ")" or after "defined X" included) is its value in C.
C14_CValues ==
    \A e \in ExprCases : Ran(BranchOn(e.expr)) => Evaluated(e.expr, e.value)

UnterminatedMessages ==
    {"Unterminated #if", "Unterminated #ifdef", "Unterminated #ifndef",
     "Unterminated #else", "Unterminated #elif"}

\* the errors "Unterminated #<kind>" among the first n tokens returned
RECURSIVE UnterminatedErrors(_)
UnterminatedErrors(n) ==
    IF n = 0 THEN 0
    ELSE UnterminatedErrors(n - 1)
            + (IF /\ returned[n].token = TOKEN_PREPROCESSING_ERROR
                  /\ returned[n].text \in UnterminatedMessages
               THEN 1 ELSE 0)

\* the frame being lexed is at its end, nothing staged
AtFrameEnd ==
    /\ ~Done /\ ~isfail /\ include_stack # <<>>
    /\ lexer(Top(Ctx)).tokenval = TOKEN_EOI

\* C15: a frame at its end with n conditionals open gives n errors
\* "Unterminated #<kind>", one per level, innermost first, before it is
\* popped: each step at the end of a frame with an open conditional closes
\* that one level and stages its error, the frame staying; a frame is popped
\* only with none open; every such error reaches the caller; "#if 1" alone
\* gives "Unterminated #if" and then end-of-input.
C15_Unterminated ==
    /\ [][AtFrameEnd /\ Top(Ctx).conditional_stack # <<>> =>
            /\ Len(include_stack') = Len(include_stack)
            /\ include_stack'[Len(include_stack)].conditional_stack
                    = Tail(Top(Ctx).conditional_stack)
            /\ isfail'
            /\ failstr' = UnterminatedMessage(Head(Top(Ctx).conditional_stack).type)
            /\ returned' = returned]_vars
    /\ [][Len(include_stack') < Len(include_stack) /\ retval' = "" =>
            AtFrameEnd /\ Top(Ctx).conditional_stack = <<>>]_vars
    /\ [](UnterminatedErrors(Len(returned)) + (IF isfail /\ failstr \in UnterminatedMessages THEN 1 ELSE 0)
            = tally.unterminated)
    /\ [](Done => UnterminatedErrors(Len(returned)) = tally.pushed - tally.popped)
    /\ [](Ran(IfLine(<<"1">>)) => Stream = <<ErrorToken("Unterminated #if"), Eoi>>)

\* an included file ended with two conditionals open: two errors, innermost
\* first, and then the parent went on
C15_Witness ==
    /\ Ran(IncludeLine("h") \o <<"z">> \o NL)
    /\ Stream = <<Identifier("x"), ErrorToken("Unterminated #ifndef"),
                  ErrorToken("Unterminated #if"), Identifier("z"), Eoi>>

\* the files the tokens returned so far were lexed from
Files == [i \in DOMAIN returned |-> returned[i].file]

\* C16: the tokens of an included file, and of the files it includes, are
\* returned before any token that follows the #include line in the parent,
\* and the parent then resumes right after that line: no step touches a frame
\* below the one being lexed, an included file is pushed with its parent left
\* at the end of the #include line, and the streams are in that order.
C16_IncludedFirst ==
    /\ [][\A i \in 1..(Len(include_stack) - 1) :
            i <= Len(include_stack') => include_stack'[i] = include_stack[i]]_vars
    /\ [][/\ Len(include_stack') > Len(include_stack)
          /\ include_stack'[Len(include_stack')].close_callback = "close_callback"
          => /\ Len(include_stack') = Len(include_stack) + 1
             /\ include_stack'[Len(include_stack')].source
                    = IncludeData(include_stack'[Len(include_stack')].filename)
             /\ lexer(include_stack'[Len(include_stack)]).tokenval = "\n"
             /\ returned' = returned /\ ~isfail']_vars
    /\ [](Ran(IncludeLine("g") \o <<"z">> \o NL) =>
            /\ Stream = <<Identifier("x"), Identifier("y"), Identifier("z"), Eoi>>
            /\ Files = <<"f", "g", "main", "">>)
    /\ [](Ran(IncludeLine("h") \o <<"z">> \o NL) =>
            Files = <<"h", "h", "h", "main", "">>)

C16_Witness ==
    /\ Ran(IncludeLine("g") \o <<"z">> \o NL)
    /\ Files = <<"f", "g", "main", "">>
    /\ tally.opened = <<IncludeData("g"), IncludeData("f")>>

\* the frame being lexed
State == include_stack[Len(include_stack)]

\* this step asks the allocator for an IncludeState and is refused
IncludeStateRefused ==
    /\ malloc_data.size = "sizeof (IncludeState)"
    /\ malloc_data.nth = 1 /\ malloc_data'.nth = 0

\* the same frames are on the include stack, the top one further on in its text
SameFrames ==
    /\ Len(include_stack') = Len(include_stack)
    /\ \A i \in 1..(Len(include_stack) - 1) : include_stack'[i] = include_stack[i]
    /\ include_stack'[Len(include_stack)].source_base = State.source_base
    /\ include_stack'[Len(include_stack)].conditional_stack = State.conditional_stack

\* C17: when the include-open callback fails for a #include, one error token
\* is returned for the directive and no frame is pushed; and when push_source
\* is refused the memory of its frame, no frame is linked: the include stack
\* holds the frames it held, the flag is raised, and the file that was opened
\* for a #include is closed again.
C17_NothingPushed ==
    /\ [][~isfail /\ isfail' /\ failstr' = "Include callback failed"
            => SameFrames /\ tally'.opened = tally.opened]_vars
    /\ [][isfail /\ failstr = "Include callback failed" /\ retval' = ""
            => /\ returned' = Append(returned,
                    [token |-> TOKEN_PREPROCESSING_ERROR, text |-> failstr,
                     inskipped |-> FALSE, file |-> File])
               /\ ~isfail' /\ include_stack' = include_stack]_vars
    /\ [](Ran(IncludeLine("x") \o <<"z">> \o NL) =>
            Stream = <<ErrorToken("Include callback failed"), Identifier("z"), Eoi>>)
    /\ [](include_pool = 0 /\ malloc_data.size = "sizeof (IncludeState)"
            /\ malloc_data.nth = 1
          => /\ push_source(Ctx, "main", <<>>, 1, "NULL").include_stack = include_stack
             /\ push_source(Ctx, "main", <<>>, 1, "NULL").out_of_memory)
    /\ [][IncludeStateRefused /\ retval' = ""
            => /\ SameFrames /\ out_of_memory'
               /\ Len(tally'.opened) - Len(tally.opened)
                    = Len(tally'.closed) - Len(tally.closed)]_vars
    /\ [](/\ session.malloc_data.size = "sizeof (IncludeState)"
          /\ session.malloc_data.nth \in 1..(Len(session.defines) + 1)
          => include_stack = <<>> /\ retval = out_of_mem_data_preprocessor)

C17_Witness ==
    /\ session.source = IncludeLine("x") \o IncludeLine("f") \o <<"z">> \o NL
    /\ Stream = <<ErrorToken("Include callback failed")>>
    /\ out_of_memory /\ ~isfail
    /\ tally.opened = <<IncludeData("f")>> /\ tally.closed = tally.opened
    /\ Len(include_stack) = 1 /\ State.filename = "main"

\* the messages of the error tokens returned so far, in order
RECURSIVE Messages(_)
Messages(tokens) ==
    IF tokens = <<>> THEN <<>>
    ELSE (IF Head(tokens).token = TOKEN_PREPROCESSING_ERROR
          THEN <<Head(tokens).text>> ELSE <<>>) \o Messages(Tail(tokens))

\* C18: a failure staged by a directive handler or by macro expansion is the
\* very next token returned, as an error token with that failure's message,
\* after which isfail is clear; so the step that stages a failure returns no
\* token, the step after it returns the error, and the errors returned are
\* the failures raised, every one of them and in the order they were raised.
C18_EveryFailureNext ==
    /\ [][~isfail /\ isfail' => returned' = returned]_vars
    /\ [][isfail => /\ ~isfail'
                    /\ Len(returned') = Len(returned) + 1
                    /\ Stream'[Len(returned')] = ErrorToken(failstr)]_vars
    /\ [](~isfail => Messages(returned) = tally.raised)

\* C19: out-of-memory is sticky and short-circuits: the flag stays raised
\* once an allocation has failed, and from then on the iterator lexes,
\* handles and expands nothing more and returns one error token with an
\* out-of-memory message and then end-of-input.
C19_ShortCircuits ==
    /\ [][out_of_memory => out_of_memory']_vars
    /\ [][out_of_memory /\ retval' = ""
            => include_stack' = include_stack
               /\ define_hashtable' = define_hashtable]_vars
    /\ [][out_of_memory' /\ returned' # returned
            => \/ /\ Stream'[Len(returned')] = ErrorToken("Out of memory")
                  /\ ErrorToken("Out of memory") \notin {Stream[i] : i \in DOMAIN Stream}
               \/ /\ Stream'[Len(returned')] = Eoi
                  /\ returned # <<>>
                  /\ Stream[Len(returned)] = ErrorToken("Out of memory")]_vars

\* the allocator has refused the request the session has it refuse
AllocationFailed == session.malloc_data.nth > 0 /\ malloc_data.nth = 0

\* C20: when an allocation fails at any point of a MOJOSHADER_preprocess
\* call, the call returns the out-of-memory record and never a record of
\* its own.
C20_Sentinel ==
    /\ AllocationFailed => retval # "MOJOSHADER_preprocessData"
    /\ AllocationFailed /\ retval # "" => retval = out_of_mem_data_preprocessor

\* C21 as stated: between a successful preprocessor_start and
\* preprocessor_end the include stack is never empty.
C21_NeverEmpty == retval = "" => include_stack # <<>>

\* C21: between a successful preprocessor_start and preprocessor_end the
\* include stack is non-empty until its last frame is popped at that frame's
\* end-of-input; it is emptied by no other step, one frame at a time, and
\* once empty it stays empty while what is staged and then end-of-input are
\* returned.
C21_NonEmptyUntilLastPop ==
    /\ [](retval = "" /\ include_stack = <<>> => include_pool >= 1)
    /\ [][include_stack # <<>> /\ include_stack' = <<>> /\ retval' = ""
            => /\ Len(include_stack) = 1
               /\ Token = TOKEN_EOI
               /\ lexer(State).conditional_stack = <<>>
               /\ returned' = returned]_vars
    /\ [][include_stack = <<>> /\ retval = "" /\ ~Done
            => /\ include_stack' = <<>>
               /\ Len(returned') = Len(returned) + 1
               /\ Stream'[Len(returned')] =
                    IF isfail THEN ErrorToken(failstr) ELSE Eoi]_vars

C21_Witness ==
    /\ retval = "" /\ include_stack = <<>> /\ include_pool = 3
    /\ Stream = <<Identifier("x"), Identifier("y"), Identifier("z")>>

\* the run is over and the source was p, whatever the allocator's blocks held
RanOn(p) ==
    /\ Done /\ session.source = p /\ session.defines = <<>>
    /\ session.malloc_data.nth = 0 /\ retval = ""

\* C22: while the builtins are in place __FILE__ is the quoted filename of
\* the innermost frame and __LINE__ the decimal current line, recomputed at
\* every lookup; a user #define or #undef of either name releases the
\* builtin, and from then on the name is an ordinary macro.
C22_Builtins ==
    /\ RanOn(<<"__FILE__">> \o NL) => Stream = <<StringLiteral("main"), Eoi>>
    /\ RanOn(<<"__LINE__">> \o NL \o <<"__LINE__">> \o NL)
            => Stream = <<IntLiteral("1"), IntLiteral("2"), Eoi>>
    /\ RanOn(<<"z">> \o NL \o IncludeLine("b"))
            => Stream = <<Identifier("z"), StringLiteral("b"), IntLiteral("2"), Eoi>>
    /\ RanOn(DefineLine("__FILE__", <<"x">>) \o <<"__FILE__">> \o NL)
            => Stream = <<ErrorToken("'__FILE__' already defined"),
                          Identifier("x"), Eoi>>
    /\ RanOn(DefineLine("__LINE__", <<"7">>) \o <<"__LINE__">> \o NL
                \o <<"__LINE__">> \o NL)
            => Stream = <<ErrorToken("'__LINE__' already defined"),
                          IntLiteral("7"), IntLiteral("7"), Eoi>>
    /\ RanOn(UndefLine("__FILE__") \o <<"__FILE__">> \o NL)
            => Stream = <<ErrorToken("undefining \"__FILE__\""),
                          Identifier("__FILE__"), Eoi>>
    /\ RanOn(UndefLine("__LINE__") \o DefineLine("__LINE__", <<"y">>)
                \o <<"__LINE__">> \o NL \o UndefLine("__LINE__")
                \o <<"__LINE__">> \o NL)
            => Stream = <<ErrorToken("undefining \"__LINE__\""),
                          Identifier("y"), Identifier("__LINE__"), Eoi>>
    /\ line_macro /\ include_stack # <<>>
            => find_define(Ctx, "__LINE__").definition = <<ToString(State.line)>>

\* how many times the data was handed to a callback
Handed(calls, data) == Cardinality({i \in DOMAIN calls : calls[i] = data})

\* the frames on the stack that hold the data for the close callback
Held(data) ==
    Cardinality({i \in DOMAIN include_stack :
                    /\ include_stack[i].close_callback = "close_callback"
                    /\ include_stack[i].source_base = data})

\* C23: for every #include whose open callback succeeds, the close callback
\* is invoked exactly once with the data the open callback returned, when the
\* frame is popped at its end-of-input, when pushing the frame fails, or when
\* preprocessor_end tears the session down, and never twice: what was opened
\* is either held by one frame of the stack or was closed once, a step closes
\* at most one more unless the session is ended, and once the call has
\* returned everything that was opened has been closed.
C23_ClosedOnce ==
    /\ [](\A f \in IncludeFiles :
            Handed(tally.opened, IncludeData(f))
                = Handed(tally.closed, IncludeData(f)) + Held(IncludeData(f)))
    /\ [][\/ tally'.closed = tally.closed
          \/ /\ retval' = ""
             /\ \E f \in IncludeFiles : tally'.closed = Append(tally.closed, IncludeData(f))
          \/ /\ retval' # ""
             /\ Len(tally'.closed) <= Len(tally.closed) + Len(include_stack)]_vars
    /\ [](retval # "" => \A f \in IncludeFiles :
            Handed(tally.closed, IncludeData(f)) = Handed(tally.opened, IncludeData(f)))

\* the call was ended by preprocessor_end while lexing an included file whose
\* push had succeeded, and the file was closed by then
C23_Witness ==
    /\ retval = out_of_mem_data_preprocessor
    /\ returned # <<>>
    /\ returned[Len(returned)].file \in IncludeFiles
    /\ returned[Len(returned)].token # TOKEN_EOI
    /\ tally.opened # <<>>
    /\ \A f \in IncludeFiles :
            Handed(tally.closed, IncludeData(f)) = Handed(tally.opened, IncludeData(f))

\* C24: every macro in the table has as many parameter names as its
\* paramcount says when that is not negative, has none when it is -1, which
\* is what a "()" declaration gives, and has no other negative paramcount,
\* after any #define and #undef directives, those that fail part-way
\* included.
C24_ParamCount ==
    /\ \A i \in DOMAIN define_hashtable :
            /\ define_hashtable[i].paramcount >= -1
            /\ define_hashtable[i].paramcount >= 0
                    => Len(define_hashtable[i].parameters) = define_hashtable[i].paramcount
            /\ define_hashtable[i].paramcount = -1
                    => define_hashtable[i].parameters = <<>>
    /\ Ran(MacroLine("F", <<>>, <<"x">>) \o <<"F", " ", "z">> \o <<" ", "z">> \o NL)
            => FindInChain(define_hashtable, "F").paramcount = -1
    /\ Ran(MacroLine("M", <<"x", ",">>, <<"b">>) \o <<"z">> \o NL)
            => FindInChain(define_hashtable, "M").parameters = <<"x">>

\* a macro with a parameter is in the table after a #define of the same
\* name failed in its parameter list
C24_Witness ==
    /\ Done
    /\ \E i \in DOMAIN define_hashtable : define_hashtable[i].paramcount = 1
    /\ "syntax error in macro parameter list" \in {tally.raised[i] : i \in DOMAIN tally.raised}

\* the frame of the predefined macros is on the include stack
Predefining ==
    \E i \in DOMAIN include_stack : include_stack[i].filename = "<predefined macros>"

\* what was returned from the initial source and at its end
FromSource == SelectSeq(returned, LAMBDA r : r.file \in {"main", ""})

C26_WholeLine ==
    /\ [][Lexing /\ ~Skipping /\ Token \in {"TOKEN_PP_IF", "TOKEN_PP_ELIF"}
                /\ ~isfail' /\ ~Killed'
            => /\ Len(include_stack') = Len(include_stack)
               /\ include_stack'[Len(include_stack')].tokenval
                        \in {"\n", TOKEN_EOI, TOKEN_INCOMPLETE_COMMENT}]_vars
    /\ [](Ran(DefineLine("A", <<"1">>) \o IfLine(<<"A", " ", "==", " ", "2">>)
                \o <<"x">> \o NL \o EndifLine)
            => Stream = <<Eoi>>)

\* the message for a call of sym with saw arguments where expected are declared
ArityMessage(sym, saw, expected) ==
    "macro '" \o sym \o "' passed " \o ToString(saw)
        \o " arguments, but requires " \o ToString(expected)
ArityMessages ==
    {ArityMessage(sym, saw, expected) : sym \in {"M", "F", "S", "C"},
                                        saw \in 0..4, expected \in 0..2}

\* the program that defines M(x,y) as x+y and then holds the call
CallOfM(call) ==
    MacroLine("M", <<"x", ",", "y">>, <<"x", "+", "y">>) \o call \o <<" ", "z">> \o NL

\* C27: a call of a function-like macro with N arguments where M are
\* declared, N # M, fails with "macro '<name>' passed N arguments, but
\* requires M", pushes no frame and leaves the macro table as it was; the
\* arguments are split only at the commas at parenthesis depth 1.
C27_Arity ==
    /\ [][~isfail /\ isfail' /\ failstr' \in ArityMessages
            => /\ Len(include_stack') = Len(include_stack)
               /\ include_stack'[Len(include_stack')].source_base = State.source_base
               /\ define_hashtable' = define_hashtable]_vars
    /\ [](Ran(CallOfM(<<"M", "(", "3", ")">>))
            => /\ ErrorToken(ArityMessage("M", 1, 2)) \in {Stream[i] : i \in DOMAIN Stream}
               /\ IntLiteral("3") \notin {Stream[i] : i \in DOMAIN Stream})
    /\ [](Ran(CallOfM(<<"M", "(", "3", ",", "4", ",", "5", ")">>))
            => /\ ErrorToken(ArityMessage("M", 3, 2)) \in {Stream[i] : i \in DOMAIN Stream}
               /\ IntLiteral("3") \notin {Stream[i] : i \in DOMAIN Stream})
    /\ [](Ran(CallOfM(<<"M", "(", "(", "3", ",", "4", ")", ",", "5", ")">>))
            => Stream = <<<<"(", "(">>, IntLiteral("3"), <<",", ",">>, IntLiteral("4"),
                          <<")", ")">>, <<"+", "+">>, IntLiteral("5"),
                          Identifier("z"), Eoi>>)

\* the call M(3) was refused and the source lexed to its end
C27_Witness ==
    /\ Ran(CallOfM(<<"M", "(", "3", ")">>))
    /\ tally.raised = <<ArityMessage("M", 1, 2)>>
    /\ InTable("M")

\* the program that defines F() as x and then holds the call
CallOfF(call) == MacroLine("F", <<>>, <<"x">>) \o call \o <<" ", "z">> \o NL

\* C28: for a function-like macro declared with "()" a call whose argument
\* list is empty or holds only whitespace is a call with no arguments and
\* expands, with no arity error.
C28_VoidCall ==
    \A call \in {<<"F", "(", ")">>, <<"F", "(", " ", ")">>, <<"F", "(", "  ", ")">>} :
        Ran(CallOfF(call)) => Stream = <<Identifier("x"), Identifier("z"), Eoi>>

\* the identifier just lexed names a function-like macro and the token that
\* follows it in its frame is not "("
NoCallFollows ==
    /\ Lexing /\ ~Skipping /\ Token = TOKEN_IDENTIFIER
    /\ ~IsNull(FindInChain(define_hashtable, Str(Top(Lexed).token)))
    /\ FindInChain(define_hashtable, Str(Top(Lexed).token)).paramcount # 0
    /\ lexer(Top(Lexed)).tokenval # "("

\* C29: when an identifier names a function-like macro and the next token of
\* its frame is not "(", the replacement is abandoned: the frame is as it was
\* when the identifier was lexed (cursor, line, current token, pushback
\* flag), no frame is pushed, no error is staged, and the identifier is
\* returned unchanged, followed by the tokens that came after it.
C29_Abandoned ==
    /\ [][NoCallFollows
            => /\ include_stack' = Lexed.include_stack
               /\ ~isfail'
               /\ define_hashtable' = define_hashtable
               /\ returned' = Append(returned,
                    [token |-> TOKEN_IDENTIFIER, text |-> Str(Top(Lexed).token),
                     inskipped |-> FALSE, file |-> File])]_vars
    /\ [](Ran(CallOfM(<<"M", " ", "z">>))
            => Stream = <<Identifier("M"), Identifier("z"), Identifier("z"), Eoi>>)
    /\ [](Ran(CallOfF(<<"F">>)) => Stream = <<Identifier("F"), Identifier("z"), Eoi>>)

\* M, a macro with two parameters, was returned as an identifier, and then
\* the identifier that followed it
C29_Witness ==
    /\ Len(returned) = 2 /\ InTable("M")
    /\ Stream[1] = Identifier("M") /\ Stream[2] = Identifier("z")
    /\ FindInChain(define_hashtable, "M").paramcount = 2

\* the call of the program p was replaced by a frame that holds text
ReplacedBy(p, text) ==
    session.source = p /\ session.malloc_data = NoRefusal /\ retval = ""
        /\ Len(include_stack) = 2
    => /\ include_stack[2].source_base = text
       /\ include_stack[2].close_callback = "close_define_include"

SameConditionals(i) ==
    /\ i \in DOMAIN include_stack /\ i \in DOMAIN include_stack'
    /\ Len(include_stack'[i].conditional_stack) = Len(include_stack[i].conditional_stack)

\* the conditionals of the frame being lexed, and after the step
Conds == include_stack[Len(include_stack)].conditional_stack
CondsAfter == include_stack'[Len(include_stack)].conditional_stack

\* the step handles the directive and gives its branch to the innermost
\* conditional of the frame
Branched(directive, type) ==
    /\ Lexing /\ Token = directive /\ retval' = ""
    /\ SameConditionals(Len(include_stack)) /\ Conds # <<>>
    /\ Head(CondsAfter).type = type /\ ~isfail'

NoBranchLeft == Conds = <<>> \/ Head(Conds).type = "TOKEN_PP_ELSE"

\* the conditionals of every frame are what they were
ConditionalsKept ==
    \A i \in DOMAIN include_stack :
        /\ i \in DOMAIN include_stack'
        /\ include_stack'[i].conditional_stack = include_stack[i].conditional_stack

\* #if e, x, #else, y, #else, z, #elif 1, a, #endif, #else, #elif 1, b
Misplaced(e) ==
    IfLine(e) \o <<"x">> \o NL \o ElseLine \o <<"y">> \o NL
        \o ElseLine \o <<"z">> \o NL \o ElifLine(<<"1">>) \o <<"a">> \o NL
        \o EndifLine \o ElseLine \o ElifLine(<<"1">>) \o <<"b">> \o NL

\* C32: #elif and #else each fail with an error when the frame has no open
\* conditional or when its innermost conditional has seen #else, and then
\* the conditional stack is unchanged: its depth, and the type, chosen and
\* skipping of every entry.
C32_Misplaced ==
    /\ [][Lexing /\ Token \in {"TOKEN_PP_ELIF", "TOKEN_PP_ELSE"} /\ NoBranchLeft
                /\ retval' = "" /\ ~Killed'
            => isfail' /\ ConditionalsKept]_vars
    /\ [](Ran(Misplaced(<<"1">>))
            => Stream = <<Identifier("x"), ErrorToken("#else after #else"),
                          ErrorToken("#elif after #else"),
                          ErrorToken("#else without #if"),
                          ErrorToken("#elif without #if"), Identifier("b"), Eoi>>)
    /\ [](Ran(Misplaced(<<"0">>))
            => Stream = <<Identifier("y"), ErrorToken("#else after #else"),
                          Identifier("z"), ErrorToken("#elif after #else"),
                          Identifier("a"),
                          ErrorToken("#else without #if"),
                          ErrorToken("#elif without #if"), Identifier("b"), Eoi>>)

\* the four misplaced directives were refused and the source lexed to its end
C32_Witness ==
    /\ Ran(Misplaced(<<"0">>))
    /\ tally.raised = <<"#else after #else", "#elif after #else",
                        "#else without #if", "#elif without #if">>

\* C33: an #if or #elif expression whose evaluation finds too few operands
\* for an operator, ends with no value or with more than one, or meets a
\* token that is no operand, parenthesis or known operator, fails with
\* "Invalid expression" and the evaluator returns -1: nothing is evaluated,
\* no conditional is pushed and none is changed.
InvalidAhead ==
    \/ Token = "TOKEN_PP_IF" /\ \E e \in InvalidExprs : session.source = InvalidIf(e)
    \/ Token = "TOKEN_PP_ELIF" /\ \E e \in InvalidExprs : session.source = InvalidElif(e)

C33_InvalidExpression ==
    [][Lexing /\ ~Killed /\ InvalidAhead /\ retval' = ""
            => /\ reduce_pp_expression(Lexed).rc = -1
               /\ isfail' /\ failstr' = "Invalid expression"
               /\ tally'.evaluated = tally.evaluated
               /\ tally'.pushed = tally.pushed
               /\ ConditionalsKept]_vars

\* the leftover value of "#if 1 2" was reported and no conditional opened,
\* so the #endif two lines down has nothing to close
C33_Witness ==
    /\ Ran(InvalidIf(<<"1", " ", "2">>))
    /\ tally.evaluated = 0 /\ tally.pushed = 0
    /\ Stream = <<ErrorToken("Invalid expression"), Identifier("y"),
                  ErrorToken("Unmatched #endif"), Eoi>>

\* C34: a newline token is returned only for the newline that ends a #pragma
\* line: the last token of a #pragma line before it in the stream, with no
\* other newline in between, is in the file the newline is in; and a source
\* with no #pragma of its own yields no newline token.
Newlines == {i \in DOMAIN returned : returned[i].token = "\n"}

EndsPragma(i) ==
    \E j \in 1..(i - 1) :
        /\ returned[j].token = "TOKEN_PP_PRAGMA"
        /\ returned[j].file = returned[i].file
        /\ \A k \in (j + 1)..(i - 1) : returned[k].token # "\n"

C34_PragmaNewline == \A i \in Newlines : EndsPragma(i)

\* the lines of the first PragmaPrograms source give x, the first pragma and
\* its newline, y, the second and its newline, z: one newline for each
C34_Pragmas ==
    /\ Ran(<<"x">> \o NL \o PragmaLine(<<"once", " ", "42">>) \o <<"y">> \o NL
                \o PragmaLine(<<"x">>) \o NL \o <<"z">> \o NL)
    /\ Stream = <<Identifier("x"), <<"TOKEN_PP_PRAGMA", "#pragma">>,
                  Identifier("once"), IntLiteral("42"), <<"\n", "\n">>,
                  Identifier("y"), <<"TOKEN_PP_PRAGMA", "#pragma">>,
                  Identifier("x"), <<"\n", "\n">>, Identifier("z"), Eoi>>

\* C35: in the calculator, run_expr gives a binary OP_NOTEQUAL node the value
\* 1 when the values of its operands differ and 0 when they are equal, the
\* negation of what it gives OP_EQUAL on the same operands.
C35_NotEqual ==
    calc.done /\ calc.expr.op = "OP_NOTEQUAL"
        => /\ calc.result = Bool(run_expr(calc.expr.left) # run_expr(calc.expr.right))
           /\ calc.result = 1 - run_expr([calc.expr EXCEPT !.op = "OP_EQUAL"])

\* C36: in every frame, at every moment, a Conditional whose parent (the
\* next one out on the frame's stack) is skipping is skipping itself,
\* whatever #if, #ifdef, #ifndef, #elif, #else or #endif came before.
C36_SkippedParent ==
    \A i \in DOMAIN include_stack :
        \A k \in 1..(Len(include_stack[i].conditional_stack) - 1) :
            include_stack[i].conditional_stack[k + 1].skipping
                => include_stack[i].conditional_stack[k].skipping

\* three expressions in, a conditional that is at an #elif and has had a
\* branch chosen sits under a parent that is skipping, and is skipping
C36_Witness ==
    /\ \E i \in DOMAIN include_stack :
        \E k \in 1..(Len(include_stack[i].conditional_stack) - 1) :
            /\ include_stack[i].conditional_stack[k + 1].skipping
            /\ include_stack[i].conditional_stack[k].chosen
            /\ include_stack[i].conditional_stack[k].type = "TOKEN_PP_ELIF"
            /\ include_stack[i].conditional_stack[k].skipping
    /\ tally.evaluated >= 3

\* C37: for every macro body #define has put in the table, replacement
\* never lexes the end of the body as the token that follows a "#" or a
\* "##": the two assertions of replace_and_push_macro hold for every call
\* of a function-like macro.
C37_HashFollowed == ~tally.asserted

\* "#a ##a" is a body where both are followed by a token: C(x) is "x"x
C37_Followed ==
    /\ Ran(MacroLine("C", <<"a">>, <<"#", "a", " ", "##", "a">>)
                \o <<"C", "(", "x", ")", " ", "z">> \o NL)
    /\ ~tally.asserted
    /\ Len(returned) >= 2

\* C38: evaluating an #if or #elif expression never computes a division or
\* a modulo by zero: an expression such as 1/0 or 1%0 is reported as an
\* error of the evaluator ("Invalid expression") and nothing is computed.
C38_NoZeroDivide ==
    /\ ~tally.zerodiv
    /\ \A e \in ZeroDivisions :
            Ran(BranchOn(e)) =>
                tally.evaluated = 0 /\ Stream[1] = ErrorToken("Invalid expression")

\* where the division does not trap, "#if 1/0" is evaluated as #if 0
C38_Computed ==
    /\ Ran(BranchOn(<<"1", "/", "0">>))
    /\ tally.zerodiv /\ ~tally.sigfpe
    /\ tally.evaluated = 1 /\ tally.value = 0
    /\ Stream = <<Identifier("z"), Eoi>>

\* C39: a token that is returned and is no error is one lexed token, its
\* kind the kind of the text returned with it: an identifier token carries
\* the text of an identifier, also when the expansion of the identifier was
\* tried and failed after it had lexed further (M(3) for a macro of two
\* parameters gives the identifier M, then the error).
C39_OneLexeme ==
    /\ \A i \in DOMAIN returned :
            returned[i].token = TOKEN_IDENTIFIER => returned[i].text \in IdentAtoms
    /\ Ran(CallOfM(<<"M", "(", "3", ")">>))
            => /\ Stream[1] = Identifier("M")
               /\ Stream[2] = ErrorToken(ArityMessage("M", 1, 2))

\* a name that is no macro, and a function-like macro named with no "("
\* after it, go through as themselves
C39_SentThrough ==
    /\ Ran(CallOfM(<<"M", " ", "z">>))
    /\ Stream = <<Identifier("M"), Identifier("z"), Identifier("z"), Eoi>>

====
